---- MODULE Spec2Model ----
(***************************************************************************)
(* Model of gantt_station_modules/station-gantt.py: the script calls       *)
(* generate() twice; each call parses the data file, assigns every record  *)
(* a lane (Offset) inside its team, lays the (team, lane) rows out on the  *)
(* vertical axis and writes the chart.                                     *)
(*                                                                         *)
(* Dates are modelled as day numbers 0..MaxTime: the code only compares    *)
(* the parsed timestamps.                                                  *)
(*                                                                         *)
(* SpecParse is parse_file of the same script, line by line, on text.      *)
(* SpecCharts is KSP_RSSRO_Save_Charts/.../ksp.py: the charts main makes   *)
(* against the total calculate_total_charts announces, and test_charts.py. *)
(* SpecLabels is the Y_Label column of station-gantt.py (lines 130-140),   *)
(* SpecCounter the progress counter of ksp.py under any calls, SpecFill    *)
(* fill_mission_payload_column of ksp.py, and SpecTranslation              *)
(* gantt_orbital_crew_missions/translation.py.                             *)
(***************************************************************************)
EXTENDS Integers, Sequences, FiniteSets, TLC

\* Bounds of the model.
MaxRecords == 3
MaxTime == 2

\* station-gantt.py:26-36
team_order ==
    << "Almaz", "Skylab", "TKS", "Russian Docking Module", "ISS US",
       "ISS ESA", "ISS JAXA", "ISS Bigelow", "Tiangong" >>

\* The team headers the data file may hold: two listed teams and one that
\* team_order does not list.
FileTeams == {"Almaz", "Skylab", "Mir"}

Times == 0..MaxTime

\* The names of the records of the data file, by place in the file: of one
\* word, of two words, with a word longer than max_name_line_len.
Leads ==
    << <<"C", "o", "r", "e">>,
       <<"U", "S", " ", "L", "a", "b">>,
       <<"N", "a", "u", "k", "a", " ", "M", "u", "l", "t", "i", "p", "u",
         "r", "p", "o", "s", "e", "-", "L", "a", "b", "o", "r", "a", "t",
         "o", "r", "y">>,
       <<"K", "v", "a", "n", "t", "-", "1">> >>

\* The name of the i-th record.
LeadAt(i) == Leads[((i - 1) % Len(Leads)) + 1]

\* Team and time range of one record line.
Records == [Team : FileTeams, Start : Times, End : Times]

\* What parse_file returns (station-gantt.py:54-59) for record lines of
\* the teams and time ranges g.
Named(g) ==
    [i \in DOMAIN g |->
        [Team |-> g[i].Team, Lead |-> LeadAt(i),
         Start |-> g[i].Start, End |-> g[i].End]]

VARIABLES
    file,            \* the records of station_data.txt (line 44)
    call,            \* number of generate() calls started (lines 205, 213)
    pc,              \* "start", "lanes", "layout", "done", "error"
    err,             \* the exception that ended the script, or "none"
    df,              \* the DataFrame rows (lines 77-80)
    idx,             \* the row the lane loop handles next (line 86)
    offset_tracker,  \* team -> sequence of <<end, offset>> (line 85)
    taken_offsets,   \* the lanes found occupied for the row handled last (line 94)
    team_y_mapping,  \* <<team, offset>> -> vertical position (line 114)
    y_order,         \* the row labels handed to the chart (line 149)
    charts,          \* what each finished generate() call drew (lines 157-197)
    lines,           \* the text lines of station_data.txt (line 44)
    line_no,         \* the line parse_file reads next (line 45)
    current_team,    \* parse_file's current_team (line 43)
    parse_data,      \* parse_file's data (line 42)
    display_color_map,  \* name -> colour (line 39)
    today,           \* the date of the run, which the script does not read
    ksp_df,          \* ksp.py: the missions of the CSV, main's df (line 1167)
    chart_counter,   \* ksp.py: chart_counter (line 20)
    progress,        \* ksp.py: the current of the last progress line (line 25)
    ksp_pc,          \* ksp.py: how far main or test_charts.py has come
    test_out,        \* test_charts.py: what it printed (lines 9-22)
    label_rows,      \* station-gantt.py: Team and Offset of df at line 131
    y_labels,        \* station-gantt.py: the Y_Label column (lines 131-140)
    label_pc,        \* station-gantt.py: whether lines 131-140 have run
    fill_in,         \* ksp.py: the df fill_mission_payload_column is given
    fill_df,         \* ksp.py: its copy of df (line 242)
    fill_idx,        \* ksp.py: the row the loop of line 255 is at
    fill_counters,   \* ksp.py: the four counters (lines 250-253)
    fill_pc,         \* ksp.py: where fill_mission_payload_column is
    tsv_rows,        \* translation.py: the rows of reader (line 59)
    tsv_idx,         \* translation.py: the row the loop of line 60 is at
    missions,        \* translation.py: missions (line 46), in insertion order
    out,             \* translation.py: the lines of missions_data.txt
    tr_pc            \* translation.py: where the script is

\* The state of generate() past parse_file, the state of parse_file, the
\* state of ksp.py, the state of the labelling of lines 131-140, the state
\* of fill_mission_payload_column, and the state of translation.py.
gen_vars == << file, call, pc, err, df, idx, offset_tracker, taken_offsets,
               team_y_mapping, y_order, charts >>
parse_vars == << lines, line_no, current_team, parse_data,
                 display_color_map, today >>

ksp_vars == << ksp_df, chart_counter, progress, ksp_pc, test_out >>

label_vars == << label_rows, y_labels, label_pc >>

fill_vars == << fill_in, fill_df, fill_idx, fill_counters, fill_pc >>

tr_vars == << tsv_rows, tsv_idx, missions, out, tr_pc >>

vars == << gen_vars, parse_vars, ksp_vars, label_vars, fill_vars, tr_vars >>

\* What the steps of one part leave alone.
not_gen_vars == << parse_vars, ksp_vars, label_vars, fill_vars, tr_vars >>
not_parse_vars == << gen_vars, ksp_vars, label_vars, fill_vars, tr_vars >>
not_ksp_vars == << gen_vars, parse_vars, label_vars, fill_vars, tr_vars >>
not_label_vars == << gen_vars, parse_vars, ksp_vars, fill_vars, tr_vars >>
not_fill_vars == << gen_vars, parse_vars, ksp_vars, label_vars, tr_vars >>
not_tr_vars == << gen_vars, parse_vars, ksp_vars, label_vars, fill_vars >>

----------------------------------------------------------------------------
\* Helpers

Range(s) == {s[i] : i \in DOMAIN s}

RECURSIVE Reverse(_)
Reverse(s) == IF s = <<>> THEN <<>> ELSE Append(Reverse(Tail(s)), Head(s))

\* sorted(...) of a set of integers
RECURSIVE Sorted(_)
Sorted(S) ==
    IF S = {} THEN <<>>
    ELSE LET m == CHOOSE x \in S : \A y \in S : x <= y
         IN <<m>> \o Sorted(S \ {m})

\* f"{team} ({offset})"
RowKey(team, offset) == team \o " (" \o ToString(offset) \o ")"

----------------------------------------------------------------------------
\* parse_file, station-gantt.py:41-63.  Text is modelled as sequences of
\* one-character strings; the team of a record is kept as a string.

\* Bound of the model: the number of lines of the data file.
MaxLines == 3

\* Python's None; no line of LinePool reads None.
None == "None"

\* The lines the data file may hold: blank, team headers (listed, unlisted,
\* of two and of three words), records (one ongoing, one of a two-word name).
LinePool ==
    { <<>>,
       <<"A", "l", "m", "a", "z", "\n">>,
       <<" ", "M", "i", "r", " ">>,
       <<"C", "o", "r", "e", ",", " ", "1", "9", "8", "6", "-", "0", "2",
         "-", "2", "0", ",", " ", "2", "0", "0", "1", "-", "0", "3", "-",
         "2", "3", "\n">>,
       <<"Z", "a", "r", "y", "a", ",", " ", "1", "9", "9", "8", "-", "1",
         "1", "-", "2", "0", ",", " ", "-">>,
       <<"I", "S", "S", " ", "U", "S">>,
       <<"S", "a", "l", "y", "u", "t", " ", "1", " ", "1", "9", "7", "1",
         "-", "0", "4", "-", "1", "9">>,
       <<"U", "S", " ", "L", "a", "b", ",", " ", "1", "-", "2", "-", "3",
         " ", "4", "-", "5", "-", "6">> }

\* The text as a string.
RECURSIVE Str(_)
Str(s) == IF s = <<>> THEN "" ELSE Head(s) \o Str(Tail(s))

\* The alphabet of the model is the characters a module can hold in a
\* string: those up to U+00FF and, above them, those of the Basic
\* Multilingual Plane whose code ends in a byte of 0x80 or more.

\* str.isspace() of a character: the white space str.strip() and
\* str.split() take away.  U+1680 is the last one; the other spaces above
\* U+00FF (U+2000-U+200A, U+2028, U+2029, U+202F, U+205F, U+3000) are not
\* in the alphabet.
IsSpace(c) ==
    c \in {" ", "\n", "\t", "\r", "\f", "", "", "", "", "", "", " ",
           " "}

\* The decimal digits (Unicode category Nd) of the alphabet, the ones \d of
\* re matches and int() reads: a row for each script, the digit of value
\* n at place n + 1.  The first row is the ASCII digits.
DecimalDigits ==
    << <<"0", "1", "2", "3", "4", "5", "6", "7", "8", "9">>,
       <<"۰", "۱", "۲", "۳", "۴", "۵", "۶", "۷", "۸", "۹">>,
       <<"߀", "߁", "߂", "߃", "߄", "߅", "߆", "߇", "߈", "߉">>,
       <<"০", "১", "২", "৩", "৪", "৫", "৬", "৭", "৮", "৯">>,
       <<"૦", "૧", "૨", "૩", "૪", "૫", "૬", "૭", "૮", "૯">>,
       <<"௦", "௧", "௨", "௩", "௪", "௫", "௬", "௭", "௮", "௯">>,
       <<"೦", "೧", "೨", "೩", "೪", "೫", "೬", "೭", "೮", "೯">>,
       <<"෦", "෧", "෨", "෩", "෪", "෫", "෬", "෭", "෮", "෯">>,
       <<"໐", "໑", "໒", "໓", "໔", "໕", "໖", "໗", "໘", "໙">>,
       <<"႐", "႑", "႒", "႓", "႔", "႕", "႖", "႗", "႘", "႙">>,
       <<"០", "១", "២", "៣", "៤", "៥", "៦", "៧", "៨", "៩">>,
       <<"᧐", "᧑", "᧒", "᧓", "᧔", "᧕", "᧖", "᧗", "᧘", "᧙">>,
       <<"᪀", "᪁", "᪂", "᪃", "᪄", "᪅", "᪆", "᪇", "᪈", "᪉">>,
       <<"᪐", "᪑", "᪒", "᪓", "᪔", "᪕", "᪖", "᪗", "᪘", "᪙">>,
       <<"᮰", "᮱", "᮲", "᮳", "᮴", "᮵", "᮶", "᮷", "᮸", "᮹">>,
       <<"꣐", "꣑", "꣒", "꣓", "꣔", "꣕", "꣖", "꣗", "꣘", "꣙">>,
       <<"꧐", "꧑", "꧒", "꧓", "꧔", "꧕", "꧖", "꧗", "꧘", "꧙">>,
       <<"꧰", "꧱", "꧲", "꧳", "꧴", "꧵", "꧶", "꧷", "꧸", "꧹">>,
       <<"꯰", "꯱", "꯲", "꯳", "꯴", "꯵", "꯶", "꯷", "꯸", "꯹">> >>

\* \d of re
IsDigit(c) ==
    \E r \in DOMAIN DecimalDigits : \E k \in 1..10 : DecimalDigits[r][k] = c

\* the value int() gives a digit
DigitValue(c) ==
    LET place == CHOOSE p \in (DOMAIN DecimalDigits) \X (1..10) :
                    DecimalDigits[p[1]][p[2]] = c
    IN place[2] - 1

\* A cell without a value, as read_csv leaves it.
NaN == <<"nan">>

\* str.strip()
RECURSIVE LStrip(_)
LStrip(s) == IF s /= <<>> /\ IsSpace(Head(s)) THEN LStrip(Tail(s)) ELSE s

RECURSIVE RStrip(_)
RStrip(s) ==
    IF s /= <<>> /\ IsSpace(s[Len(s)]) THEN RStrip(SubSeq(s, 1, Len(s) - 1)) ELSE s

Strip(s) == RStrip(LStrip(s))

\* str.replace(old, new), old not empty: left to right, without overlap
RECURSIVE Replace(_, _, _)
Replace(s, old, new) ==
    IF \A k \in 0..(Len(s) - Len(old)) : SubSeq(s, k + 1, k + Len(old)) /= old
    THEN s
    ELSE IF SubSeq(s, 1, Len(old)) = old
         THEN new \o Replace(SubSeq(s, Len(old) + 1, Len(s)), old, new)
         ELSE <<Head(s)>> \o Replace(Tail(s), old, new)

\* line 47: the text that stands for the current date
OngoingMarker == <<",", " ", "-">>
OngoingDate == <<",", " ", "2", "0", "2", "5", "-", "0", "7", "-", "1", "1">>

\* str.split(): the words between runs of white space
RECURSIVE SplitFrom(_, _)
SplitFrom(s, word) ==
    IF s = <<>> THEN (IF word = <<>> THEN <<>> ELSE <<word>>)
    ELSE IF IsSpace(Head(s))
         THEN (IF word = <<>> THEN <<>> ELSE <<word>>) \o SplitFrom(Tail(s), <<>>)
         ELSE SplitFrom(Tail(s), Append(word, Head(s)))

Split(s) == SplitFrom(s, <<>>)

\* str.count(c) for a character c
Count(s, c) == Cardinality({i \in DOMAIN s : s[i] = c})

\* " ".join(words)
RECURSIVE Join(_)
Join(words) ==
    IF words = <<>> THEN <<>>
    ELSE IF Len(words) = 1 THEN words[1]
         ELSE words[1] \o <<" ">> \o Join(Tail(words))

\* lines 46-47: the line as the parser looks at it
Cleaned(raw) == Replace(Strip(raw), OngoingMarker, OngoingDate)

\* line 51
IsRecord(tokens) ==
    /\ Len(tokens) >= 3
    /\ Count(tokens[Len(tokens) - 1], "-") = 2
    /\ Count(tokens[Len(tokens)], "-") = 2

\* lines 14-24
team_color_map ==
    ("Almaz" :> "#970c10") @@ ("Skylab" :> "#1155cc") @@ ("TKS" :> "#ff8000")
    @@ ("Russian Docking Module" :> "#fad711") @@ ("ISS US" :> "#1155cc")
    @@ ("ISS ESA" :> "#00e1ff") @@ ("ISS JAXA" :> "#00e1ff")
    @@ ("ISS Bigelow" :> "#00e1ff") @@ ("Tiangong" :> "#eb1700")

\* line 60: team_color_map.get(current_team, "#000000")
ColorOf(team) ==
    IF team \in DOMAIN team_color_map THEN team_color_map[team] ELSE "#000000"

\* Variant of lines 48-49 in which a blank line falls through to line 62.
ParseLineBlankFalls(st, raw) ==
    LET line == Cleaned(raw)
        tokens == Split(line)
    IN IF line /= <<>> /\ IsRecord(tokens)
       THEN LET name == Replace(Join(SubSeq(tokens, 1, Len(tokens) - 2)), <<",">>, <<>>)
            IN [current_team |-> st.current_team,
                data |-> Append(st.data,
                                [Team |-> st.current_team, Lead |-> name,
                                 Start |-> tokens[Len(tokens) - 1],
                                 End |-> tokens[Len(tokens)]]),
                display_color_map |->
                    (name :> ColorOf(st.current_team)) @@ st.display_color_map]
       ELSE [st EXCEPT !.current_team = Str(line)]

\* lines 46-62: the body of the loop over the lines
ParseLine(st, raw) ==
    LET line == Cleaned(raw)
        tokens == Split(line)
    IN IF line = <<>> THEN st
       ELSE IF IsRecord(tokens)
       THEN LET name == Replace(Join(SubSeq(tokens, 1, Len(tokens) - 2)), <<",">>, <<>>)
            IN [current_team |-> st.current_team,
                data |-> Append(st.data,
                                [Team |-> st.current_team, Lead |-> name,
                                 Start |-> tokens[Len(tokens) - 1],
                                 End |-> tokens[Len(tokens)]]),
                display_color_map |->
                    (name :> ColorOf(st.current_team)) @@ st.display_color_map]
       ELSE [st EXCEPT !.current_team = Str(line)]

\* lines 39, 60: display_color_map once parse_file has read the records, a
\* later record of a name taking the place of an earlier one
RECURSIVE ColorMap(_)
ColorMap(records) ==
    IF records = <<>> THEN <<>>
    ELSE LET last == records[Len(records)]
         IN (last.Lead :> ColorOf(last.Team))
                @@ ColorMap(SubSeq(records, 1, Len(records) - 1))

\* The dates the script may be run on: the day line 47 names, a later day.
RunDates ==
    { <<"2", "0", "2", "5", "-", "0", "7", "-", "1", "1">>,
      <<"2", "0", "2", "6", "-", "1", "0", "-", "2", "9">> }

ParseIdle ==
    /\ today = <<>>
    /\ lines = <<>>
    /\ line_no = 1
    /\ current_team = None
    /\ parse_data = <<>>
    /\ display_color_map = <<>>

----------------------------------------------------------------------------
\* The lane loop, station-gantt.py:85-107

\* Variant of line 85 with the dictionary kept across calls.
SharedOffsetTracker(previous) == previous

\* line 85: offset_tracker = {} is a local of generate, built anew on every
\* call whatever the previous call left behind.
NewOffsetTracker(previous) == <<>>

\* lines 91-92
WithTeam(tracker, team) ==
    IF team \in DOMAIN tracker THEN tracker ELSE (team :> <<>>) @@ tracker

\* Variants of lines 96-99 with the comparison changed.
TakenOffsetsInverted(reservations, start) ==
    {reservations[i][2] : i \in {j \in DOMAIN reservations : reservations[j][1] < start}}

TakenOffsetsInclusive(reservations, start) ==
    {reservations[i][2] : i \in {j \in DOMAIN reservations : reservations[j][1] >= start}}

\* lines 94-99
TakenOffsets(reservations, start) ==
    {reservations[i][2] : i \in {j \in DOMAIN reservations : reservations[j][1] > start}}

\* Variant of lines 102-104 that opens a lane above every occupied one.
LowestOffsetAbove(offset, taken) ==
    IF taken = {} THEN offset
    ELSE (CHOOSE m \in taken : \A o \in taken : o <= m) + 1

\* Variant of line 101 that starts the search at the lane after offset.
LowestOffsetSkipsFirst(offset, taken) ==
    LET above == {o \in taken : o > offset}
        free == {o \in (offset + 1)..(offset + 1 + Cardinality(above)) : o \notin taken}
    IN CHOOSE o \in free : \A q \in free : o <= q

\* lines 102-104
RECURSIVE LowestOffset(_, _)
LowestOffset(offset, taken) ==
    IF offset \in taken THEN LowestOffset(offset + 1, taken) ELSE offset

\* Variant of line 106 that writes the Offset of every row of the team.
LaneRowWholeTeam(rows, tracker, i) ==
    LET team == rows[i].Team
        tr == WithTeam(tracker, team)
        taken == TakenOffsets(tr[team], rows[i].Start)
        offset == LowestOffset(0, taken)
    IN [rows |-> [j \in DOMAIN rows |->
                    IF rows[j].Team = team THEN [rows[j] EXCEPT !.Offset = offset]
                    ELSE rows[j]],
        tracker |-> [tr EXCEPT ![team] = Append(@, <<rows[i].End, offset>>)],
        taken |-> taken]

\* Variant of lines 91-107 with one reservation list for all teams.
LaneRowOneList(rows, tracker, i) ==
    LET tr == WithTeam(tracker, "all")
        taken == TakenOffsets(tr["all"], rows[i].Start)
        offset == LowestOffset(0, taken)
    IN [rows |-> [rows EXCEPT ![i].Offset = offset],
        tracker |-> [tr EXCEPT !["all"] = Append(@, <<rows[i].End, offset>>)],
        taken |-> taken]

\* Variant of line 106 that writes the row back from the values the loop
\* read, so that the name is lost.
LaneRowRebuilt(rows, tracker, i) ==
    LET team == rows[i].Team
        tr == WithTeam(tracker, team)
        taken == TakenOffsets(tr[team], rows[i].Start)
        offset == LowestOffset(0, taken)
    IN [rows |-> [rows EXCEPT ![i] = [Team |-> team, Lead |-> <<>>,
                                      Start |-> rows[i].Start, End |-> rows[i].End,
                                      Offset |-> offset, Y |-> rows[i].Y]],
        tracker |-> [tr EXCEPT ![team] = Append(@, <<rows[i].End, offset>>)],
        taken |-> taken]

\* Variant of line 107 that keeps the latest reservation of the team only.
LaneRowKeepsLast(rows, tracker, i) ==
    LET team == rows[i].Team
        tr == WithTeam(tracker, team)
        taken == TakenOffsets(tr[team], rows[i].Start)
        offset == LowestOffset(0, taken)
    IN [rows |-> [rows EXCEPT ![i].Offset = offset],
        tracker |-> [tr EXCEPT ![team] = << <<rows[i].End, offset>> >>],
        taken |-> taken]

\* lines 106-107: one pass of the loop body over row i
LaneRow(rows, tracker, i) ==
    LET team == rows[i].Team
        tr == WithTeam(tracker, team)
        taken == TakenOffsets(tr[team], rows[i].Start)
        offset == LowestOffset(0, taken)
    IN [rows |-> [rows EXCEPT ![i].Offset = offset],
        tracker |-> [tr EXCEPT ![team] = Append(@, <<rows[i].End, offset>>)],
        taken |-> taken]

\* lines 86-107: the whole loop, from row i on
RECURSIVE LaneLoop(_, _, _)
LaneLoop(rows, tracker, i) ==
    IF i > Len(rows) THEN rows
    ELSE LET r == LaneRow(rows, tracker, i)
         IN LaneLoop(r.rows, r.tracker, i + 1)

\* line 7
max_name_line_len == 20

\* str.split(c) for a character c
RECURSIVE SplitOnFrom(_, _, _)
SplitOnFrom(s, c, piece) ==
    IF s = <<>> THEN <<piece>>
    ELSE IF Head(s) = c THEN <<piece>> \o SplitOnFrom(Tail(s), c, <<>>)
         ELSE SplitOnFrom(Tail(s), c, Append(piece, Head(s)))

SplitOn(s, c) == SplitOnFrom(s, c, <<>>)

\* lines 68-69: the pieces put together again, the long ones cut
RECURSIVE TruncatePieces(_, _)
TruncatePieces(name_split, max_len) ==
    IF name_split = <<>> THEN <<>>
    ELSE LET ns == Head(name_split)
         IN (IF Len(ns) <= max_len THEN ns
             ELSE SubSeq(ns, 1, max_len - 3) \o <<".", ".", ".", "\n">>)
            \o TruncatePieces(Tail(name_split), max_len)

\* lines 65-70
truncate_name(name, max_len) == Strip(TruncatePieces(SplitOn(name, "\n"), max_len))

\* lines 72-73
linebreak_name(name) == Replace(name, <<" ">>, <<"\n", " ">>)

\* lines 77-83: the DataFrame of the parsed records, Offset 0 in every row
\* (the Y column of line 110 is carried from the start, as 0)
Frame(data) ==
    [i \in DOMAIN data |->
        [Team |-> data[i].Team,
         Lead |-> truncate_name(linebreak_name(data[i].Lead), max_name_line_len),
         Start |-> data[i].Start, End |-> data[i].End,
         Offset |-> 0, Y |-> 0]]

----------------------------------------------------------------------------
\* The layout, station-gantt.py:109-154

\* Variant of lines 119-122 that takes 0 for a team without rows.
MaxOffsetZero(rows, team) ==
    LET offs == {rows[i].Offset : i \in {j \in DOMAIN rows : rows[j].Team = team}}
    IN IF offs = {} THEN 0 ELSE CHOOSE m \in offs : \A o \in offs : o <= m

\* team_rows["Offset"].max(), -1 when the team has no row (lines 119-122)
MaxOffset(rows, team) ==
    LET offs == {rows[i].Offset : i \in {j \in DOMAIN rows : rows[j].Team = team}}
    IN IF offs = {} THEN -1 ELSE CHOOSE m \in offs : \A o \in offs : o <= m

\* Variant of lines 114-128 in which line 128 does not advance the position.
RECURSIVE TeamYMappingNoAdvance(_, _, _, _)
TeamYMappingNoAdvance(rows, k, current_y_position, mapping) ==
    IF k > Len(team_order) THEN mapping
    ELSE LET team == team_order[k]
             max_offset == MaxOffset(rows, team)
             new == [key \in {<<team, o>> : o \in 0..max_offset} |->
                        current_y_position + key[2]]
         IN TeamYMappingNoAdvance(rows, k + 1, current_y_position, new @@ mapping)

\* lines 114-128
RECURSIVE TeamYMapping(_, _, _, _)
TeamYMapping(rows, k, current_y_position, mapping) ==
    IF k > Len(team_order) THEN mapping
    ELSE LET team == team_order[k]
             max_offset == MaxOffset(rows, team)
             new == [key \in {<<team, o>> : o \in 0..max_offset} |->
                        current_y_position + key[2]]
         IN TeamYMapping(rows, k + 1, current_y_position + (max_offset + 1),
                         new @@ mapping)

\* The rows S in ascending order of Offset.
RECURSIVE ByOffset(_, _)
ByOffset(rows, S) ==
    IF S = {} THEN <<>>
    ELSE LET i == CHOOSE x \in S : \A y \in S :
                      \/ rows[x].Offset < rows[y].Offset
                      \/ rows[x].Offset = rows[y].Offset /\ x <= y
         IN <<rows[i].Offset>> \o ByOffset(rows, S \ {i})

\* Variant of lines 149-153 without .unique(): one label per row.
RECURSIVE YOrderFromEveryRow(_, _)
YOrderFromEveryRow(rows, k) ==
    IF k > Len(team_order) THEN <<>>
    ELSE LET team == team_order[k]
             offsets == ByOffset(rows, {j \in DOMAIN rows : rows[j].Team = team})
         IN [i \in DOMAIN offsets |-> RowKey(team, offsets[i])]
                \o YOrderFromEveryRow(rows, k + 1)

\* lines 149-153: the list before it is reversed
RECURSIVE YOrderFrom(_, _)
YOrderFrom(rows, k) ==
    IF k > Len(team_order) THEN <<>>
    ELSE LET team == team_order[k]
             offsets == Sorted({rows[i].Offset :
                                  i \in {j \in DOMAIN rows : rows[j].Team = team}})
         IN [i \in DOMAIN offsets |-> RowKey(team, offsets[i])] \o YOrderFrom(rows, k + 1)

\* lines 148-154
YOrder(rows) == Reverse(YOrderFrom(rows, 1))

\* lines 143-144: the rows whose (Team, Offset) is no key of the mapping
MissingKeys(rows, mapping) ==
    {i \in DOMAIN rows : <<rows[i].Team, rows[i].Offset>> \notin DOMAIN mapping}

----------------------------------------------------------------------------
\* ksp.py: the programs, the number of charts announced and the number of
\* charts made.  The operators named after the create_ functions give the
\* number of update_progress calls the function makes.

\* Bound of the model: the number of missions of the CSV.
MaxMissions == 2

\* "Mission / Payload" of the CSV: empty, of a program of line 67-94, of a
\* program named by its first word (line 96).
MissionPool ==
    { <<>>,
      <<"P", "o", "l", "a", "r", "i", "s", " ", "1">>,
      <<"F", "o", "o", " ", "S", "a", "t">> }

\* "Crew": NaN (as read_csv reads an empty field; modelled as the empty
\* text), blank, one pilot.
CrewPool == { <<>>, <<" ">>, <<"J", "e", "b">> }

\* "Outcome" (line 1193), "Launch Vehicle" and "Year" (line 1195) of a
\* mission.
Outcomes == {"Success", "Failure"}
VehiclePool ==
    { <<"G", "o", "l", "i", "a", "t", "h">>,
      <<"A", "T", "P", "-", "1", "0", "1">> }
Years == {1958, 1959}

\* The columns of df in main at line 1218, and in test_charts.py at line 9.
PreparedColumns ==
    {"Mission", "Crew", "Vehicle", "Outcome", "Series", "Year", "Crewed",
     "VehicleType"}
CsvColumns == {"Mission", "Crew", "Vehicle"}

LowerCase ==
    << "a", "b", "c", "d", "e", "f", "g", "h", "i", "j", "k", "l", "m",
         "n", "o", "p", "q", "r", "s", "t", "u", "v", "w", "x", "y", "z" >>
UpperCase ==
    << "A", "B", "C", "D", "E", "F", "G", "H", "I", "J", "K", "L", "M",
         "N", "O", "P", "Q", "R", "S", "T", "U", "V", "W", "X", "Y", "Z" >>

\* word in text.lower() of lines 113, 129, 144 and 146, for a word of
\* lower-case ASCII letters.  str.lower() gives one character for each
\* character of the alphabet, and gives an ASCII letter for that letter and
\* its capital only: the word is in the lowered text where the text has it
\* letter by letter in either case.
InLowered(word, text) ==
    \E k \in 0..(Len(text) - Len(word)) :
        \A j \in DOMAIN word :
            \/ text[k + j] = word[j]
            \/ \E n \in DOMAIN LowerCase :
                  LowerCase[n] = word[j] /\ UpperCase[n] = text[k + j]

\* sub in s
Contains(s, sub) ==
    \E k \in 0..(Len(s) - Len(sub)) : SubSeq(s, k + 1, k + Len(sub)) = sub

\* line 1206: str.replace(r'ATP-(\d)\d+.*', r'ATP-\1XX', regex=True).  Every
\* match is replaced; '.*' ends at a line feed, where the search goes on.
RECURSIVE AtpSeries(_)
AtpSeries(s) ==
    LET hits == {k \in 1..(Len(s) - 5) :
                    /\ SubSeq(s, k, k + 3) = <<"A", "T", "P", "-">>
                    /\ IsDigit(s[k + 4])
                    /\ IsDigit(s[k + 5])}
        first == CHOOSE k \in hits : \A j \in hits : k <= j
        feeds == {k \in (first + 6)..Len(s) : s[k] = "\n"}
        rest == IF feeds = {} THEN <<>>
                ELSE SubSeq(s, CHOOSE k \in feeds : \A j \in feeds : k <= j,
                            Len(s))
    IN IF hits = {} THEN s
       ELSE SubSeq(s, 1, first + 4) \o <<"X", "X">> \o AtpSeries(rest)

\* line 1214: str.replace(r'[A-Z]+$', '', regex=True); '$' is the end of the
\* text and the place before a line feed that ends the text.
WithoutTrailingCapitals(s) ==
    LET fed == s /= <<>> /\ s[Len(s)] = "\n"
        body == IF fed THEN SubSeq(s, 1, Len(s) - 1) ELSE s
        capitals == {n \in 0..Len(body) :
                        \A i \in (Len(body) - n + 1)..Len(body) :
                            \E k \in DOMAIN UpperCase : UpperCase[k] = body[i]}
        n == CHOOSE m \in capitals : \A o \in capitals : o <= m
    IN SubSeq(body, 1, Len(body) - n) \o (IF fed THEN <<"\n">> ELSE <<>>)

\* line 1215: str.replace(r'-\d+$', '', regex=True), '$' as at line 1214
WithoutTrailingNumber(s) ==
    LET fed == s /= <<>> /\ s[Len(s)] = "\n"
        body == IF fed THEN SubSeq(s, 1, Len(s) - 1) ELSE s
        digits == {n \in 1..Len(body) :
                      \A i \in (Len(body) - n + 1)..Len(body) : IsDigit(body[i])}
        n == CHOOSE m \in digits : \A o \in digits : o <= m
    IN IF digits /= {} /\ n < Len(body) /\ body[Len(body) - n] = "-"
       THEN SubSeq(body, 1, Len(body) - n - 1) \o (IF fed THEN <<"\n">> ELSE <<>>)
       ELSE s

\* lines 1202-1215: "Launch Vehicle Series" of a "Launch Vehicle"
launch_vehicle_series(vehicle) ==
    LET unknown == <<"U", "n", "k", "n", "o", "w", "n">>
        colussus == <<"C", "o", "l", "u", "s", "s", "u", "s", " ", "2">>
        filled == IF vehicle = NaN THEN unknown ELSE vehicle
        atp_mask == Contains(filled, <<"A", "T", "P", "-">>)
        atp == IF atp_mask THEN AtpSeries(filled) ELSE filled
        colussus_mask == Contains(atp, colussus)
    IN IF colussus_mask THEN colussus
       ELSE IF ~atp_mask /\ atp /= unknown
       THEN WithoutTrailingNumber(WithoutTrailingCapitals(atp))
       ELSE atp

\* One mission of the CSV, with the columns main adds at lines 1193-1215.
\* Series stands for "Launch Vehicle Series", Vehicle for "Launch Vehicle",
\* Mission for "Mission / Payload"; the CSV has no "Contract / Mission".
Missions ==
    { [Mission |-> m, Outcome |-> o, Vehicle |-> v,
       Series |-> Str(launch_vehicle_series(v)), Crew |-> c, Year |-> y,
       Contract |-> <<>>] :
        m \in MissionPool, o \in Outcomes, v \in VehiclePool, c \in CrewPool,
        y \in Years }

\* line 1194
Crewed(row) == Strip(row.Crew) /= <<>>

\* lines 1198-1199
VehicleType(row) ==
    IF row.Vehicle /= NaN /\ Contains(row.Vehicle, <<"A", "T", "P">>)
    THEN "Plane" ELSE "Rocket"

\* lines 1193-1215: the columns main adds.  A column of a CSV with rows in
\* which every cell is empty is read as numbers (NaN) and has no .str
\* accessor: where line 1194 asks it of "Crew" (whose NaN is <<>> here) or
\* line 1199 of "Launch Vehicle", raises is "AttributeError" and df is as
\* it was.
Prepared(d) ==
    LET no_crew_text == \A i \in DOMAIN d : d[i].Crew = <<>>
        no_vehicle_text == \A i \in DOMAIN d : d[i].Vehicle = NaN
    IN IF d /= <<>> /\ (no_crew_text \/ no_vehicle_text)
       THEN [raises |-> "AttributeError", df |-> d]
       ELSE [raises |-> "None",
             df |-> [i \in DOMAIN d |->
                       [Mission |-> d[i].Mission, Outcome |-> d[i].Outcome,
                        Vehicle |-> d[i].Vehicle,
                        Series |-> Str(launch_vehicle_series(d[i].Vehicle)),
                        Crew |-> d[i].Crew, Year |-> d[i].Year,
                        Contract |-> d[i].Contract,
                        Crewed |-> Crewed(d[i]),
                        VehicleType |-> VehicleType(d[i])]]]

\* str.startswith
StartsWith(s, prefix) ==
    Len(s) >= Len(prefix) /\ SubSeq(s, 1, Len(prefix)) = prefix

\* lines 67-94, in order
ProgramPrefixes ==
    << [prefix |->
            <<"A", "T", "P", " ", "F", "l", "i", "g", "h", "t">>,
        program |-> "ATP Flight"],
       [prefix |->
            <<"A", "T", "P", " ", "S", "p", "a", "c", "e", "f", "l", "i",
              "g", "h", "t">>,
        program |-> "ATP Spaceflight"],
       [prefix |->
            <<"H", "u", "m", "b", "o", "l", "d", "t", " ", "O", "r", "b",
              "i", "t", "a", "l">>,
        program |-> "Humboldt Orbital"],
       [prefix |->
            <<"H", "u", "m", "b", "o", "l", "d", "t", " ", "S", "u", "b",
              "o", "r", "b", "i", "t", "a", "l">>,
        program |-> "Humboldt Suborbital"],
       [prefix |->
            <<"R", "i", "c", "o", "c", "h", "e", "t">>,
        program |-> "Ricochet"],
       [prefix |->
            <<"H", "e", "i", "n", "l", "e", "i", "n">>,
        program |-> "Heinlein"],
       [prefix |->
            <<"C", "o", "l", "u", "s", "s", "u", "s">>,
        program |-> "Colussus"],
       [prefix |->
            <<"G", "o", "l", "i", "a", "t", "h">>,
        program |-> "Goliath"],
       [prefix |->
            <<"P", "o", "l", "a", "r", "i", "s">>,
        program |-> "Polaris"],
       [prefix |->
            <<"S", "e", "l", "e", "n", "i", "u", "m">>,
        program |-> "Selenium"],
       [prefix |->
            <<"A", "m", "u", "n", "d", "s", "e", "n">>,
        program |-> "Amundsen"],
       [prefix |->
            <<"B", "e", "l", "g", "i", "c", "a">>,
        program |-> "Belgica"],
       [prefix |->
            <<"C", "R", "S">>,
        program |-> "Belgica"],
       [prefix |->
            <<"C", "a", "s", "s", "i", "o", "p", "e">>,
        program |-> "Cassiope"],
       [prefix |->
            <<"P", "e", "r", "p", "l", "e", "x">>,
        program |-> "Perplex"] >>

RECURSIVE FirstPrefix(_, _)
FirstPrefix(mission_str, k) ==
    IF k > Len(ProgramPrefixes) THEN Str(Split(mission_str)[1])
    ELSE IF StartsWith(mission_str, ProgramPrefixes[k].prefix)
         THEN ProgramPrefixes[k].program
         ELSE FirstPrefix(mission_str, k + 1)

\* lines 55-96; line 57: 'Other' for a cell without a value (pd.isna) and
\* for a blank text
extract_program_name(mission_payload) ==
    IF mission_payload = NaN \/ Strip(mission_payload) = <<>> THEN "Other"
    ELSE FirstPrefix(Strip(mission_payload), 1)

\* lines 1121-1122, 841-842: the programs other than 'Other' and blank
ProgramsOf(d) ==
    {p \in {extract_program_name(d[i].Mission) : i \in DOMAIN d} :
        p /= "Other" /\ p /= ""}

\* df[df['Program'] == program]
ProgramRows(d, program) ==
    SelectSeq(d, LAMBDA row : extract_program_name(row.Mission) = program)

\* len(d[column].unique())
Unique(d, column) == Cardinality({d[i][column] : i \in DOMAIN d})

\* lines 1133-1154: the charts counted for one program
ProgramChartsCounted(program_df, columns) ==
    (IF "Outcome" \in columns /\ Unique(program_df, "Outcome") > 1 THEN 1 ELSE 0)
    + (IF "Series" \in columns /\ Unique(program_df, "Series") > 1 THEN 1 ELSE 0)
    + (IF "Crewed" \in columns /\ Unique(program_df, "Crewed") > 1 THEN 1 ELSE 0)
    + (IF "Outcome" \in columns /\ Unique(program_df, "Outcome") > 0 THEN 1 ELSE 0)
    + (IF "Series" \in columns /\ Unique(program_df, "Series") > 0 THEN 1 ELSE 0)
    + (IF Len(program_df) > 1
       THEN 1
            + (IF /\ "Year" \in columns
                  /\ "Outcome" \in columns
                  /\ Unique(program_df, "Year") > 1
                  /\ Unique(program_df, "Outcome") > 1
               THEN 1 ELSE 0)
            + (IF /\ "Year" \in columns
                  /\ "Series" \in columns
                  /\ Unique(program_df, "Year") > 1
                  /\ Unique(program_df, "Series") > 1
               THEN 1 ELSE 0)
       ELSE 0)

\* lines 1125-1156
RECURSIVE CountedFor(_, _, _)
CountedFor(programs, d, columns) ==
    IF programs = {} THEN 0
    ELSE LET program == CHOOSE p \in programs : TRUE
             program_df == ProgramRows(d, program)
         IN (IF Len(program_df) = 0 THEN 0
             ELSE ProgramChartsCounted(program_df, columns))
            + CountedFor(programs \ {program}, d, columns)

\* lines 1100-1158
calculate_total_charts(d, columns) ==
    4 + 5 + 5 + 10 + 6 + CountedFor(ProgramsOf(d), d, columns)

\* lines 30-33
set_total_charts(total) == [current |-> 0, total |-> total]

\* The progress line shows the counter itself.
update_progressUncapped(st) ==
    LET current == st.counter.current + 1
    IN [counter |-> [st.counter EXCEPT !.current = current],
        shown |-> current]

\* lines 22-28: the counter, and the current of the progress line
update_progress(st) ==
    LET current == st.counter.current + 1
    IN [counter |-> [st.counter EXCEPT !.current = current],
        shown |-> IF current <= st.counter.total THEN current
                  ELSE st.counter.total]

\* n calls of update_progress
RECURSIVE Progress(_, _)
Progress(st, n) == IF n = 0 THEN st ELSE Progress(update_progress(st), n - 1)

\* lines 150-155
create_pie_chart(data_len) == IF data_len = 0 THEN 0 ELSE 1

\* lines 194-200
create_time_series_chart(data_len) == IF data_len = 0 THEN 0 ELSE 1

\* lines 229-236: the days of date_range; the missions of the model are
\* flown on one IRL day.
IrlDays(d) == IF d = <<>> THEN 0 ELSE 1

\* lines 367-389
create_pie_charts(d) ==
    create_pie_chart(Unique(d, "Outcome"))
    + create_pie_chart(Unique(d, "Crewed"))
    + create_pie_chart(Unique(d, "VehicleType"))
    + create_pie_chart(Unique(d, "Series"))

\* lines 391-426: five tables with a row per Year
create_ksp_time_series(d) == 5 * create_time_series_chart(Unique(d, "Year"))

\* lines 428-474: five tables with a row per day of date_range
create_irl_time_series(d) == 5 * create_time_series_chart(IrlDays(d))

\* lines 585-586: the names of row["Crew"]
Pilots(crew) == {Strip(name) : name \in Range(SplitOn(crew, ","))} \ {<<>>}

\* lines 584-594: the rows that give pilot_df a row
PilotRows(d) == {i \in DOMAIN d : Crewed(d[i]) /\ Pilots(d[i].Crew) /= {}}

\* lines 98-148, in hundredths of an hour; the missions of the model have no
\* Notes.
calculate_flight_time_hours(row) ==
    IF Strip(row.Crew) = <<>> THEN 0
    ELSE IF StartsWith(Strip(row.Vehicle), <<"A", "T", "P">>) THEN 100
    ELSE IF InLowered(<<"b", "e", "l", "g", "i", "c", "a">>, Strip(row.Mission))
         THEN 150
    ELSE IF InLowered(<<"p", "o", "l", "a", "r", "i", "s">>, Strip(row.Mission))
         THEN 16800
    ELSE IF InLowered(<<"l", "u", "n", "a", "r">>, Strip(row.Mission))
         THEN 16800
    ELSE IF InLowered(<<"o", "r", "b", "i", "t", "a", "l">>, Strip(row.Mission))
         THEN 2400
    ELSE 300

\* lines 686-696: the rows that give pilot_time_df a row
PilotTimeRows(d) ==
    {i \in PilotRows(d) : calculate_flight_time_hours(d[i]) > 0}

\* lines 476-831
create_custom_charts(d) ==
    5
    + (IF PilotRows(d) = {} THEN 0 ELSE 2 + (IF PilotRows(d) = {} THEN 0 ELSE 1))
    + (IF PilotTimeRows(d) = {} THEN 0
       ELSE 1 + (IF PilotTimeRows(d) = {} THEN 0 ELSE 1)
              + (IF PilotTimeRows(d) = {} THEN 0 ELSE 1))

\* lines 921-923: the years min_year .. max_year
AllYears(program_df) ==
    LET years == {program_df[i].Year : i \in DOMAIN program_df}
        min_year == CHOOSE y \in years : \A z \in years : y <= z
        max_year == CHOOSE y \in years : \A z \in years : z <= y
    IN max_year - min_year + 1

\* lines 863-964
create_program_charts(program_df) ==
    (IF Unique(program_df, "Outcome") > 1
     THEN create_pie_chart(Unique(program_df, "Outcome")) ELSE 0)
    + (IF Unique(program_df, "Series") > 1
       THEN create_pie_chart(Unique(program_df, "Series")) ELSE 0)
    + (IF Unique(program_df, "Crewed") > 1
       THEN create_pie_chart(Unique(program_df, "Crewed")) ELSE 0)
    + (IF Unique(program_df, "Outcome") > 0 THEN 1 ELSE 0)
    + (IF Unique(program_df, "Series") > 0 THEN 1 ELSE 0)
    + (IF Len(program_df) > 1 /\ AllYears(program_df) > 0
       THEN create_time_series_chart(AllYears(program_df)) ELSE 0)
    + (IF /\ Len(program_df) > 1
          /\ Unique(program_df, "Year") > 1
          /\ Unique(program_df, "Outcome") > 1
       THEN create_time_series_chart(AllYears(program_df)) ELSE 0)
    + (IF /\ Len(program_df) > 1
          /\ Unique(program_df, "Year") > 1
          /\ Unique(program_df, "Series") > 1
       THEN create_time_series_chart(AllYears(program_df)) ELSE 0)

\* lines 844-861
RECURSIVE ChartsFor(_, _)
ChartsFor(programs, d) ==
    IF programs = {} THEN 0
    ELSE LET program == CHOOSE p \in programs : TRUE
             program_df == ProgramRows(d, program)
         IN (IF Len(program_df) = 0 THEN 0 ELSE create_program_charts(program_df))
            + ChartsFor(programs \ {program}, d)

\* lines 833-861
create_program_analysis(d) == ChartsFor(ProgramsOf(d), d)

\* lines 979-980: the programs of more than one mission
ProgramsToShow(d) ==
    {p \in {extract_program_name(d[i].Mission) : i \in DOMAIN d} :
        p /= "Other" /\ Len(ProgramRows(d, p)) > 1}

\* lines 966-1098
create_program_breakdowns(d) ==
    LET programs_to_show == ProgramsToShow(d)
        pilot_programs ==
            {extract_program_name(d[i].Mission) : i \in PilotRows(d)}
    IN (IF programs_to_show /= {}
        THEN create_pie_chart(Cardinality(programs_to_show)) ELSE 0)
       + (IF programs_to_show /= {}
          THEN create_time_series_chart(Unique(d, "Year")) ELSE 0)
       + (IF programs_to_show /= {}
          THEN create_time_series_chart(IrlDays(d)) ELSE 0)
       + (IF programs_to_show /= {} THEN 1 ELSE 0)
       + (IF programs_to_show /= {} THEN 1 ELSE 0)
       + (IF PilotRows(d) /= {} /\ pilot_programs \cap programs_to_show /= {}
          THEN 1 ELSE 0)

\* ksp.py is not running.
KspIdle ==
    /\ ksp_df = <<>>
    /\ chart_counter = [current |-> 0, total |-> 0]
    /\ progress = 0
    /\ ksp_pc = "idle"
    /\ test_out = <<>>

----------------------------------------------------------------------------
\* The labels of the vertical axis, station-gantt.py:130-140

\* Bound of the model: the number of lanes of a team.
MaxLanes == 8

\* The characters of the team names: those of team_order (lines 26-36)
\* and Mir, a team of the data file that team_order does not list.
TeamText ==
    ("Mir" :> <<"M", "i", "r">>) @@
    ("Almaz" :>
        <<"A", "l", "m", "a", "z">>) @@
    ("Skylab" :>
        <<"S", "k", "y", "l", "a", "b">>) @@
    ("TKS" :>
        <<"T", "K", "S">>) @@
    ("Russian Docking Module" :>
        <<"R", "u", "s", "s", "i", "a", "n", " ", "D", "o", "c", "k", "i",
          "n", "g", " ", "M", "o", "d", "u", "l", "e">>) @@
    ("ISS US" :>
        <<"I", "S", "S", " ", "U", "S">>) @@
    ("ISS ESA" :>
        <<"I", "S", "S", " ", "E", "S", "A">>) @@
    ("ISS JAXA" :>
        <<"I", "S", "S", " ", "J", "A", "X", "A">>) @@
    ("ISS Bigelow" :>
        <<"I", "S", "S", " ", "B", "i", "g", "e", "l", "o", "w">>) @@
    ("Tiangong" :>
        <<"T", "i", "a", "n", "g", "o", "n", "g">>)

\* str(n) for n >= 0
RECURSIVE Digits(_)
Digits(n) ==
    LET d == <<"0", "1", "2", "3", "4", "5", "6", "7", "8", "9">>[(n % 10) + 1]
    IN IF n < 10 THEN <<d>> ELSE Append(Digits(n \div 10), d)

\* " " * n
Spaces(n) == [i \in 1..n |-> " "]

\* lines 134-139: the passes for "(1)" .. "(6)", from the k-th on
RECURSIVE Blanked(_, _)
Blanked(x, k) ==
    IF k > 6 THEN x
    ELSE Blanked(IF Contains(x, <<"(">> \o Digits(k) \o <<")">>)
                 THEN Spaces(Len(x) * k) ELSE x,
                 k + 1)

\* lines 131-140
Y_Label(team, offset) ==
    Replace(Blanked(TeamText[team] \o <<" ", "(">> \o Digits(offset) \o <<")">>, 1),
            <<"(", "0", ")">>, <<>>)

\* Team and Offset of the rows of df, from which line 131 makes the labels
LabelRows(rows) ==
    [i \in DOMAIN rows |-> [Team |-> rows[i].Team, Offset |-> rows[i].Offset]]

\* lines 131-140: the column Y_Label
YLabels(rows) == [i \in DOMAIN rows |-> Y_Label(rows[i].Team, rows[i].Offset)]

\* The rows of a team with n lanes, one for each lane.
LaneRowsOf(team, n) == [l \in 1..n |-> [Team |-> team, Offset |-> l - 1]]

\* Lines 131-140 are not running.
LabelIdle ==
    /\ label_rows = <<>>
    /\ y_labels = <<>>
    /\ label_pc = "idle"

----------------------------------------------------------------------------
\* fill_mission_payload_column, ksp.py:240-288

\* Bound of the model: the rows of the df.
MaxFillRows == 4

\* Rows of the df: the Launch Vehicle, the Mission / Payload (Mission) and the
\* Contract / Mission of a launch.
FillRowPool ==
    { [Vehicle |-> <<"H", "u", "m", "b", "o", "l", "d", "t", "-", "4", "A">>,
       Mission |-> NaN,
       Contract |-> <<>>],
      [Vehicle |-> <<"H", "u", "m", "b", "o", "l", "d", "t", "-", "2">>,
       Mission |-> <<>>,
       Contract |-> <<>>],
      [Vehicle |-> <<"A", "T", "P", "-", "2", "0", "1">>,
       Mission |-> <<>>,
       Contract |-> <<>>],
      [Vehicle |-> <<"A", "T", "P", "-", "1", "0", "1">>,
       Mission |-> NaN,
       Contract |-> <<>>],
      [Vehicle |-> <<"A", "T", "P", "-", "2", "0", "1">>,
       Mission |-> <<"F", "o", "o">>,
       Contract |-> <<>>],
      [Vehicle |-> <<"H", "u", "m", "b", "o", "l", "d", "t", "-", "4", "A">>,
       Mission |-> <<" ">>,
       Contract |-> <<>>],
      [Vehicle |-> <<"G", "o", "l", "i", "a", "t", "h", " ", "1", "A">>,
       Mission |-> NaN,
       Contract |-> <<"F", "i", "r", "s", "t", " ", "N", "a", "v", "i",
                      "g", "a", "t", "i", "o", "n", "a", "l", " ", "S",
                      "a", "t", "e", "l", "l", "i", "t", "e">>],
      [Vehicle |-> <<"A", "T", "P", "-", "X">>,
       Mission |-> <<>>,
       Contract |-> <<>>],
      [Vehicle |-> NaN,
       Mission |-> <<>>,
       Contract |-> <<>>] }

\* Series.fillna('') of line 247
FillNa(column) == [i \in DOMAIN column |-> IF column[i] = NaN THEN <<>> ELSE column[i]]

\* lines 245-247: the Mission / Payload column of the copy
WithPayloadFilled(d) ==
    LET payload == FillNa([i \in DOMAIN d |-> d[i].Mission])
    IN [i \in DOMAIN d |-> [d[i] EXCEPT !.Mission = payload[i]]]

\* lines 250-253
NewFillCounters ==
    [c \in {"Humboldt Orbital", "Humboldt Suborbital", "ATP Flight",
            "ATP Spaceflight"} |-> 1]

\* The text of the names of lines 268-285, before the number.
CategoryText ==
    ("Humboldt Orbital" :>
        <<"H", "u", "m", "b", "o", "l", "d", "t", " ", "O", "r", "b", "i",
          "t", "a", "l">>) @@
    ("Humboldt Suborbital" :>
        <<"H", "u", "m", "b", "o", "l", "d", "t", " ", "S", "u", "b", "o",
          "r", "b", "i", "t", "a", "l">>) @@
    ("ATP Flight" :>
        <<"A", "T", "P", " ", "F", "l", "i", "g", "h", "t">>) @@
    ("ATP Spaceflight" :>
        <<"A", "T", "P", " ", "S", "p", "a", "c", "e", "f", "l", "i", "g",
          "h", "t">>)

\* line 278: re.search(r'ATP-(\d)', vehicle), the group of the first match,
\* <<>> without a match
SeriesDigit(vehicle) ==
    LET hits == {k \in 1..(Len(vehicle) - 4) :
                    /\ SubSeq(vehicle, k, k + 3) = <<"A", "T", "P", "-">>
                    /\ IsDigit(vehicle[k + 4])}
    IN IF hits = {} THEN <<>>
       ELSE <<vehicle[(CHOOSE k \in hits : \A j \in hits : k <= j) + 4]>>

\* lines 261-285: the branch a row with an empty payload takes
Category(row) ==
    IF row.Vehicle = NaN THEN "None"
    ELSE IF /\ row.Vehicle = <<"G", "o", "l", "i", "a", "t", "h", " ", "1", "A">>
            /\ Contains(Strip(row.Contract),
                        <<"F", "i", "r", "s", "t", " ", "N", "a", "v", "i",
                          "g", "a", "t", "i", "o", "n", "a", "l", " ", "S",
                          "a", "t", "e", "l", "l", "i", "t", "e">>)
         THEN "Selenium"
    ELSE IF Contains(row.Vehicle, <<"H", "u", "m", "b", "o", "l", "d", "t", "-", "4">>)
         THEN "Humboldt Orbital"
    ELSE IF StartsWith(row.Vehicle, <<"H", "u", "m", "b", "o", "l", "d", "t">>)
         THEN "Humboldt Suborbital"
    ELSE IF StartsWith(row.Vehicle, <<"A", "T", "P", "-">>)
         THEN IF SeriesDigit(row.Vehicle) = <<>> THEN "None"
              ELSE IF SeriesDigit(row.Vehicle) \in {<<"2">>, <<"4">>}
                   THEN "ATP Spaceflight"
                   ELSE "ATP Flight"
    ELSE "None"

\* Every counter moves with the one of the category.
BumpAll(counters, c) == [k \in DOMAIN counters |-> counters[k] + 1]

\* lines 269, 274, 283, 286: counter += 1
Bump(counters, c) == [counters EXCEPT ![c] = @ + 1]

\* lines 256-286: one pass of the loop, on row i
fill_row(st, i) ==
    LET row == st.df[i]
        c == Category(row)
    IN IF row.Mission /= NaN /\ Strip(row.Mission) /= <<>> THEN st
       ELSE IF c = "None" THEN st
       ELSE IF c = "Selenium"
            THEN [st EXCEPT !.df[i].Mission =
                     <<"S", "e", "l", "e", "n", "i", "u", "m", " ", "1">>]
       ELSE [df |-> [st.df EXCEPT ![i].Mission =
                        CategoryText[c] \o <<" ">> \o Digits(st.counters[c])],
             counters |-> Bump(st.counters, c)]

\* lines 255-286: the loop from row i on
RECURSIVE FillRows(_, _)
FillRows(st, i) ==
    IF i > Len(st.df) THEN st ELSE FillRows(fill_row(st, i), i + 1)

\* lines 240-288
fill_mission_payload_column(d) ==
    FillRows([df |-> WithPayloadFilled(d), counters |-> NewFillCounters], 1).df

\* fill_mission_payload_column is not running.
FillIdle ==
    /\ fill_in = <<>>
    /\ fill_df = <<>>
    /\ fill_idx = 0
    /\ fill_counters = NewFillCounters
    /\ fill_pc = "idle"

\* translation.py is not running.
TrIdle ==
    /\ tsv_rows = <<>>
    /\ tsv_idx = 0
    /\ missions = <<>>
    /\ out = <<>>
    /\ tr_pc = "idle"

----------------------------------------------------------------------------
\* translation.py.  A row is the Dur, Project and Ship of a line of
\* missions.tsv as csv.DictReader gives them; the dates of lines 78-85 are
\* left out of the rows and of the lines written.

\* Bound of the model: the data lines of missions.tsv.
MaxTsvRows == 3

TsvRowPool ==
    { [Dur |-> <<"1", "_", "0", ":", "0", "0", ":", "0", "0">>,
       Project |-> <<"A", "p", "o", "l", "l", "o">>,
       Ship |-> <<"A", "p", "o", "l", "l", "o", " ", "1", "2">>],
      [Dur |-> <<"1", ":", "0", "2", ":", "4", "7", ":", "5", "2">>,
       Project |-> <<"S", "Z">>,
       Ship |-> <<"S", "Z", "-", "5">>],
      [Dur |-> <<"5", ":", "0", "0", ":", "0", "0", ":", "0", "0">>,
       Project |-> <<"S", "h", "e", "n", "z", "h", "o", "u">>,
       Ship |-> <<"S", "Z", "-", "6">>],
      [Dur |-> <<"2", ":", "0", "6", ":", "2", "0", ":", "5", "3">>,
       Project |-> <<"S", "T", "S">>,
       Ship |-> <<"S", "T", "S", "-", "1">>],
      [Dur |-> <<"7", ":", "0", "0", ":", "0", "0", ":", "0", "0">>,
       Project |-> <<"S", "p", "a", "c", "e", " ", "S", "h", "u", "t", "t",
                     "l", "e">>,
       Ship |-> <<"S", "T", "S", "-", "2">>],
      [Dur |-> <<"1", "8", "8", ":", "2", "0", ":", "1", "6", ":", "0", "0">>,
       Project |-> <<"S", "o", "y", "u", "z">>,
       Ship |-> <<"S", "o", "y", "u", "z", " ", "T", "M", "-", "2", "9">>],
      [Dur |-> <<"7", "2", ":", "1", "9", ":", "4", "2", ":", "0", "0">>,
       Project |-> <<"S", "o", "y", "u", "z", "/", "M", "i", "r", "C", "o",
                     "r", "p">>,
       Ship |-> <<"S", "o", "y", "u", "z", " ", "T", "M", "-", "3", "0">>],
      [Dur |-> <<"0", ":", "0", "0", ":", "1", "5", ":", "2", "2">>,
       Project |-> <<"M", "e", "r", "c", "u", "r", "y">>,
       Ship |-> <<"M", "R", "-", "3">>],
      [Dur |-> <<"0", ":", "0", "1", ":", "4", "8", ":", "0", "0">>,
       Project |-> <<"V", "o", "s", "t", "o", "k">>,
       Ship |-> <<"V", "o", "s", "t", "o", "k", " ", "1">>],
      [Dur |-> <<>>,
       Project |-> <<"A", "p", "o", "l", "l", "o">>,
       Ship |-> <<"A", "p", "o", "l", "l", "o", " ", "1">>],
      [Dur |-> <<"0">>,
       Project |-> <<"A", "p", "o", "l", "l", "o">>,
       Ship |-> <<"A", "p", "o", "l", "l", "o", " ", "2">>],
      [Dur |-> <<"1", "3", "?">>,
       Project |-> <<"A", "p", "o", "l", "l", "o">>,
       Ship |-> <<"A", "p", "o", "l", "l", "o", " ", "3">>],
      [Dur |-> <<"1", ":", "0", "0", ":", "0", "0">>,
       Project |-> <<"A", "p", "o", "l", "l", "o">>,
       Ship |-> <<"A", "p", "o", "l", "l", "o", " ", "4">>],
      [Dur |-> <<"5", "9", ":", "5", "9">>,
       Project |-> <<"A", "p", "o", "l", "l", "o">>,
       Ship |-> <<"A", "p", "o", "l", "l", "o", " ", "5">>],
      [Dur |-> <<"6", "0", ":", "0", "0">>,
       Project |-> <<"A", "p", "o", "l", "l", "o">>,
       Ship |-> <<"A", "p", "o", "l", "l", "o", " ", "6">>],
      [Dur |-> <<"3", "6", "0", "0">>,
       Project |-> <<"A", "p", "o", "l", "l", "o">>,
       Ship |-> <<"A", "p", "o", "l", "l", "o", " ", "7">>],
      [Dur |-> <<"1", ":", "2", ":", "3", ":", "4", ":", "5">>,
       Project |-> <<"A", "p", "o", "l", "l", "o">>,
       Ship |-> <<"A", "p", "o", "l", "l", "o", " ", "8">>],
      [Dur |-> <<" ", "0", ":", "0", "1", ":", "0", "0", ":", "0", "0", " ">>,
       Project |-> <<" ", "A", "p", "o", "l", "l", "o", " ">>,
       Ship |-> <<"A", "p", "o", "l", "l", "o", " ", "9", " ">>],
      [Dur |-> <<"0", ":", "0", "0", ":", "5", "9", ":", "5", "9">>,
       Project |-> <<"A", "p", "o", "l", "l", "o">>,
       Ship |-> <<"A", "p", "o", "l", "l", "o", " ", "1", "0">>],
      [Dur |-> <<"0", ":", "1", "3", "?", ":", "0", "0", ":", "0", "0">>,
       Project |-> <<"A", "p", "o", "l", "l", "o">>,
       Ship |-> <<"A", "p", "o", "l", "l", "o", " ", "1", "1">>] }

\* ord(c) of the characters of the project names
CodePoint ==
    (" " :> 32) @@ ("-" :> 45) @@ ("/" :> 47) @@ ("0" :> 48) @@ ("1" :> 49) @@
    ("2" :> 50) @@ ("3" :> 51) @@ ("4" :> 52) @@ ("5" :> 53) @@ ("6" :> 54) @@
    ("7" :> 55) @@ ("8" :> 56) @@ ("9" :> 57) @@ ("A" :> 65) @@ ("B" :> 66) @@
    ("C" :> 67) @@ ("D" :> 68) @@ ("E" :> 69) @@ ("F" :> 70) @@ ("G" :> 71) @@
    ("H" :> 72) @@ ("I" :> 73) @@ ("J" :> 74) @@ ("K" :> 75) @@ ("L" :> 76) @@
    ("M" :> 77) @@ ("N" :> 78) @@ ("O" :> 79) @@ ("P" :> 80) @@ ("Q" :> 81) @@
    ("R" :> 82) @@ ("S" :> 83) @@ ("T" :> 84) @@ ("U" :> 85) @@ ("V" :> 86) @@
    ("W" :> 87) @@ ("X" :> 88) @@ ("Y" :> 89) @@ ("Z" :> 90) @@ ("a" :> 97) @@
    ("b" :> 98) @@ ("c" :> 99) @@ ("d" :> 100) @@ ("e" :> 101) @@ ("f" :> 102) @@
    ("g" :> 103) @@ ("h" :> 104) @@ ("i" :> 105) @@ ("j" :> 106) @@ ("k" :> 107) @@
    ("l" :> 108) @@ ("m" :> 109) @@ ("n" :> 110) @@ ("o" :> 111) @@ ("p" :> 112) @@
    ("q" :> 113) @@ ("r" :> 114) @@ ("s" :> 115) @@ ("t" :> 116) @@ ("u" :> 117) @@
    ("v" :> 118) @@ ("w" :> 119) @@ ("x" :> 120) @@ ("y" :> 121) @@ ("z" :> 122)

\* a < b for two str
RECURSIVE TextLess(_, _)
TextLess(a, b) ==
    IF b = <<>> THEN FALSE
    ELSE IF a = <<>> THEN TRUE
    ELSE IF Head(a) = Head(b) THEN TextLess(Tail(a), Tail(b))
    ELSE CodePoint[Head(a)] < CodePoint[Head(b)]

\* the value of a text of digits
RECURSIVE NumberOf(_)
NumberOf(body) ==
    IF body = <<>> THEN 0
    ELSE NumberOf(SubSeq(body, 1, Len(body) - 1)) * 10
            + DigitValue(body[Len(body)])

\* The white space int() takes away around a number: that of str.strip()
\* but for the separators U+001C to U+001F.
IsIntSpace(c) == IsSpace(c) /\ c \notin {"", "", "", ""}

IntStrip(s) ==
    LET kept == {i \in DOMAIN s : ~IsIntSpace(s[i])}
    IN IF kept = {} THEN <<>>
       ELSE SubSeq(s, CHOOSE i \in kept : \A j \in kept : i <= j,
                      CHOOSE i \in kept : \A j \in kept : j <= i)

\* int(text): ok is FALSE where int raises ValueError.  White space around
\* the number and one underscore between two digits are allowed; a digit is
\* a decimal digit of any script.
int(text) ==
    LET t == IntStrip(text)
        signed == t /= <<>> /\ Head(t) \in {"+", "-"}
        body == IF signed THEN Tail(t) ELSE t
        ok == /\ body /= <<>>
              /\ IsDigit(body[1])
              /\ IsDigit(body[Len(body)])
              /\ \A i \in DOMAIN body : IsDigit(body[i]) \/ body[i] = "_"
              /\ \A i \in 1..(Len(body) - 1) :
                    ~(body[i] = "_" /\ body[i + 1] = "_")
        number == NumberOf(SelectSeq(body, IsDigit))
    IN [ok |-> ok,
        value |-> IF ~ok THEN 0
                  ELSE IF signed /\ Head(t) = "-" THEN 0 - number
                  ELSE number]

\* lines 6-25, in seconds
parse_duration(duration) ==
    LET d == Strip(duration)
        parts == SplitOn(d, ":")
        n == [i \in DOMAIN parts |-> int(parts[i])]
    IN IF \/ d = <<"0">>
          \/ d = <<>>
          \/ d = <<"0", ":", "0", "0", ":", "0", "0", ":", "0", "0">>
       THEN 0
       ELSE IF Len(parts) \in {2, 3, 4} /\ \E i \in DOMAIN n : ~n[i].ok THEN 0
       ELSE IF Len(parts) = 4
            THEN n[1].value * 86400 + n[2].value * 3600 + n[3].value * 60
                    + n[4].value
       ELSE IF Len(parts) = 3
            THEN n[1].value * 3600 + n[2].value * 60 + n[3].value
       ELSE IF Len(parts) = 2
            THEN n[1].value * 60 + n[2].value
       ELSE 0

\* A mission of exactly one hour is dropped too.
culledWithinHour(duration) == duration <= 3600

\* line 62: duration < timedelta(hours=1)
culled(duration) == duration < 3600

\* lines 64, 67-72
translate_project(text) ==
    LET project == Strip(text)
    IN IF project = <<"S", "Z">>
       THEN <<"S", "h", "e", "n", "z", "h", "o", "u">>
       ELSE IF project = <<"S", "T", "S">>
       THEN <<"S", "p", "a", "c", "e", " ", "S", "h", "u", "t", "t", "l", "e">>
       ELSE IF project = <<"S", "o", "y", "u", "z", "/", "M", "i", "r", "C", "o",
                           "r", "p">>
       THEN <<"S", "o", "y", "u", "z">>
       ELSE project

\* str.replace(old, new, 1) of a text that starts with old
ReplacePrefix(s, old, new) == new \o SubSeq(s, Len(old) + 1, Len(s))

\* lines 65, 74-77
translate_ship(text) ==
    LET ship == Strip(text)
        sz == IF StartsWith(ship, <<"S", "Z">>)
              THEN ReplacePrefix(ship, <<"S", "Z">>,
                                 <<"S", "h", "e", "n", "z", "h", "o", "u">>)
              ELSE ship
    IN IF StartsWith(sz, <<"S", "T", "S">>)
       THEN ReplacePrefix(sz, <<"S", "T", "S">>,
                          <<"S", "p", "a", "c", "e", " ", "S", "h", "u", "t", "t",
                            "l", "e">>)
       ELSE sz

\* line 86: missions[project].append(ship), the keys in insertion order
AppendMission(m, project, ship) ==
    IF \E k \in DOMAIN m : m[k].project = project
    THEN [k \in DOMAIN m |->
            IF m[k].project = project
            THEN [m[k] EXCEPT !.ships = Append(@, ship)]
            ELSE m[k]]
    ELSE Append(m, [project |-> project, ships |-> <<ship>>])

\* lines 61-86: one row of reader
read_row(m, row) ==
    IF culled(parse_duration(row.Dur)) THEN m
    ELSE AppendMission(m, translate_project(row.Project),
                       translate_ship(row.Ship))

\* sorted(texts)
RECURSIVE SortedTexts(_)
SortedTexts(S) ==
    IF S = {} THEN <<>>
    ELSE LET least == CHOOSE x \in S : \A y \in S : x = y \/ TextLess(x, y)
         IN <<least>> \o SortedTexts(S \ {least})

\* The keys as the dict holds them.
projects_unsorted(m) == [k \in DOMAIN m |-> m[k].project]

\* line 89
sorted_projects(m) == SortedTexts({m[k].project : k \in DOMAIN m})

\* lines 94-97: the lines of one project
ProjectBlock(m, project) ==
    LET k == CHOOSE j \in DOMAIN m : m[j].project = project
    IN <<[kind |-> "project", text |-> project]>>
         \o [j \in DOMAIN m[k].ships |->
                [kind |-> "mission", text |-> m[k].ships[j]]]
         \o <<[kind |-> "blank", text |-> <<>>]>>

\* lines 93-97
RECURSIVE WriteBlocks(_, _)
WriteBlocks(m, projects) ==
    IF projects = <<>> THEN <<>>
    ELSE ProjectBlock(m, Head(projects)) \o WriteBlocks(m, Tail(projects))

----------------------------------------------------------------------------
\* The script

Init ==
    /\ \E n \in 0..MaxRecords : \E g \in [1..n -> Records] : file = Named(g)
    /\ call = 0
    /\ pc = "start"
    /\ err = "none"
    /\ df = <<>>
    /\ idx = 1
    /\ offset_tracker = <<>>
    /\ taken_offsets = {}
    /\ team_y_mapping = <<>>
    /\ y_order = <<>>
    /\ charts = <<>>
    /\ ParseIdle
    /\ KspIdle
    /\ LabelIdle
    /\ FillIdle
    /\ TrIdle

\* lines 205 and 213 call generate(); lines 75-85 run up to the lane loop.
\* pd.DataFrame([]) has no column, so line 78 raises KeyError on an empty file.
Generate ==
    /\ \/ pc = "start"
       \/ pc = "done" /\ call < 2
    /\ call' = call + 1
    /\ team_y_mapping' = <<>>
    /\ y_order' = <<>>
    /\ taken_offsets' = {}
    /\ idx' = 1
    /\ \/ /\ file = <<>>
          /\ pc' = "error"
          /\ err' = "KeyError"
          /\ df' = <<>>
          /\ UNCHANGED offset_tracker
       \/ /\ file /= <<>>
          /\ df' = Frame(file)
          /\ offset_tracker' = NewOffsetTracker(offset_tracker)
          /\ pc' = "lanes"
          /\ UNCHANGED err
    /\ display_color_map' = ColorMap(file)
    /\ label_rows' = <<>>
    /\ y_labels' = <<>>
    /\ label_pc' = "idle"
    /\ UNCHANGED << file, charts >>
    /\ UNCHANGED << lines, line_no, current_team, parse_data, today >>
    /\ UNCHANGED << ksp_vars, fill_vars, tr_vars >>

\* One iteration of the loop of lines 86-107.
LaneStep ==
    /\ pc = "lanes"
    /\ idx <= Len(df)
    /\ LET r == LaneRow(df, offset_tracker, idx)
       IN /\ df' = r.rows
          /\ offset_tracker' = r.tracker
          /\ taken_offsets' = r.taken
    /\ idx' = idx + 1
    /\ pc' = IF idx = Len(df) THEN "layout" ELSE "lanes"
    /\ UNCHANGED << file, call, err, team_y_mapping, y_order, charts >>
    /\ UNCHANGED not_gen_vars

\* Lines 109-203: vertical positions, the Y column, the row order, the chart.
\* Line 144 raises KeyError at the first row whose key the mapping lacks.
Layout ==
    /\ pc = "layout"
    /\ LET mapping == TeamYMapping(df, 1, 0, <<>>)
           missing == MissingKeys(df, mapping)
           first == IF missing = {} THEN Len(df) + 1
                    ELSE CHOOSE i \in missing : \A j \in missing : i <= j
       IN /\ team_y_mapping' = mapping
          /\ df' = [i \in DOMAIN df |->
                      IF i < first
                      THEN [df[i] EXCEPT !.Y = mapping[<<df[i].Team, df[i].Offset>>]]
                      ELSE df[i]]
          /\ \/ /\ missing /= {}
                /\ pc' = "error"
                /\ err' = "KeyError"
                /\ UNCHANGED << y_order, charts >>
             \/ /\ missing = {}
                /\ y_order' = YOrder(df)
                /\ charts' = Append(charts, [df |-> df', y_order |-> y_order',
                                             y |-> YLabels(LabelRows(df))])
                /\ pc' = "done"
                /\ UNCHANGED err
    /\ label_rows' = LabelRows(df)
    /\ y_labels' = YLabels(label_rows')
    /\ label_pc' = "done"
    /\ UNCHANGED << file, call, idx, offset_tracker, taken_offsets >>
    /\ UNCHANGED << parse_vars, ksp_vars, fill_vars, tr_vars >>

Next == Generate \/ LaneStep \/ Layout

Spec == Init /\ [][Next]_vars

\* generate() has not been called, apart from its parse_file.
GenIdle ==
    /\ file = <<>>
    /\ call = 0
    /\ pc = "start"
    /\ err = "none"
    /\ df = <<>>
    /\ idx = 1
    /\ offset_tracker = <<>>
    /\ taken_offsets = {}
    /\ team_y_mapping = <<>>
    /\ y_order = <<>>
    /\ charts = <<>>

\* lines 42-44: parse_file opens a data file of up to MaxLines lines.
InitParse ==
    /\ GenIdle
    /\ \E n \in 0..MaxLines : lines \in [1..n -> LinePool]
    /\ line_no = 1
    /\ current_team = None
    /\ parse_data = <<>>
    /\ display_color_map = <<>>
    /\ today \in RunDates
    /\ KspIdle
    /\ LabelIdle
    /\ FillIdle
    /\ TrIdle

\* One iteration of the loop of lines 45-62.
ParseStep ==
    /\ line_no <= Len(lines)
    /\ LET st == ParseLine([current_team |-> current_team, data |-> parse_data,
                            display_color_map |-> display_color_map],
                           lines[line_no])
       IN /\ current_team' = st.current_team
          /\ parse_data' = st.data
          /\ display_color_map' = st.display_color_map
    /\ line_no' = line_no + 1
    /\ UNCHANGED << lines, today >>
    /\ UNCHANGED not_parse_vars

NextParse == ParseStep

SpecParse == InitParse /\ [][NextParse]_vars

\* main reads the CSV (line 1167): a dataset of 1..MaxMissions missions.
InitCharts ==
    /\ GenIdle
    /\ ParseIdle
    /\ LabelIdle
    /\ FillIdle
    /\ TrIdle
    /\ \E n \in 1..MaxMissions : ksp_df \in [1..n -> Missions]
    /\ chart_counter = [current |-> 0, total |-> 0]
    /\ progress = 0
    /\ ksp_pc = "start"
    /\ test_out = <<>>

\* n charts are made: n calls of update_progress.
Made(n) ==
    LET st == Progress([counter |-> chart_counter, shown |-> progress], n)
    IN /\ chart_counter' = st.counter
       /\ progress' = st.shown

\* lines 1160-1219: main fills the payloads (line 1180), prepares df and
\* announces the total; where the preparation raises, main ends there, with
\* no total announced and no chart made
Main ==
    /\ ksp_pc = "start"
    /\ LET prepared == Prepared(fill_mission_payload_column(ksp_df))
       IN /\ ksp_df' = prepared.df
          /\ IF prepared.raises = "None"
             THEN /\ chart_counter' =
                        set_total_charts(
                            calculate_total_charts(prepared.df, PreparedColumns))
                  /\ ksp_pc' = "pie_charts"
             ELSE /\ chart_counter' = chart_counter
                  /\ ksp_pc' = prepared.raises
    /\ UNCHANGED << progress, test_out >>
    /\ UNCHANGED not_ksp_vars

\* line 1229
CreatePieCharts ==
    /\ ksp_pc = "pie_charts"
    /\ Made(create_pie_charts(ksp_df))
    /\ ksp_pc' = "ksp_time_series"
    /\ UNCHANGED << ksp_df, test_out >>
    /\ UNCHANGED not_ksp_vars

\* line 1230
CreateKspTimeSeries ==
    /\ ksp_pc = "ksp_time_series"
    /\ Made(create_ksp_time_series(ksp_df))
    /\ ksp_pc' = "irl_time_series"
    /\ UNCHANGED << ksp_df, test_out >>
    /\ UNCHANGED not_ksp_vars

\* line 1231
CreateIrlTimeSeries ==
    /\ ksp_pc = "irl_time_series"
    /\ Made(create_irl_time_series(ksp_df))
    /\ ksp_pc' = "custom_charts"
    /\ UNCHANGED << ksp_df, test_out >>
    /\ UNCHANGED not_ksp_vars

\* line 1232
CreateCustomCharts ==
    /\ ksp_pc = "custom_charts"
    /\ Made(create_custom_charts(ksp_df))
    /\ ksp_pc' = "program_analysis"
    /\ UNCHANGED << ksp_df, test_out >>
    /\ UNCHANGED not_ksp_vars

\* line 1233
CreateProgramAnalysis ==
    /\ ksp_pc = "program_analysis"
    /\ Made(create_program_analysis(ksp_df))
    /\ ksp_pc' = "program_breakdowns"
    /\ UNCHANGED << ksp_df, test_out >>
    /\ UNCHANGED not_ksp_vars

\* line 1236
CreateProgramBreakdowns ==
    /\ ksp_pc = "program_breakdowns"
    /\ Made(create_program_breakdowns(ksp_df))
    /\ ksp_pc' = "done"
    /\ UNCHANGED << ksp_df, test_out >>
    /\ UNCHANGED not_ksp_vars

\* test_charts.py:4-22: the CSV is filled by fill_mission_payload_column
\* (line 7), then counted
TestCharts ==
    /\ ksp_pc = "start"
    /\ ksp_pc' = "tested"
    /\ LET filled == fill_mission_payload_column(ksp_df)
           programs == ProgramsOf(filled)
       IN test_out' = [total |-> calculate_total_charts(filled, CsvColumns),
                       programs |-> Cardinality(programs),
                       should |-> 22 + Cardinality(programs) * 6]
    /\ UNCHANGED << ksp_df, chart_counter, progress >>
    /\ UNCHANGED not_ksp_vars

NextCharts ==
    \/ Main
    \/ CreatePieCharts
    \/ CreateKspTimeSeries
    \/ CreateIrlTimeSeries
    \/ CreateCustomCharts
    \/ CreateProgramAnalysis
    \/ CreateProgramBreakdowns
    \/ TestCharts

SpecCharts == InitCharts /\ [][NextCharts]_vars

\* Line 131 is reached with a df of two teams of team_order, each with the
\* lanes 0 .. n-1 (or of one team).
InitLabels ==
    /\ GenIdle
    /\ ParseIdle
    /\ KspIdle
    /\ FillIdle
    /\ TrIdle
    /\ \E t1, t2 \in Range(team_order) : \E n1, n2 \in 1..MaxLanes :
          label_rows = LaneRowsOf(t1, n1)
                          \o (IF t2 = t1 THEN <<>> ELSE LaneRowsOf(t2, n2))
    /\ y_labels = <<>>
    /\ label_pc = "start"

\* lines 131-140: the Y_Label column
MakeLabels ==
    /\ label_pc = "start"
    /\ y_labels' = YLabels(label_rows)
    /\ label_pc' = "done"
    /\ UNCHANGED label_rows
    /\ UNCHANGED not_label_vars

NextLabels == MakeLabels

SpecLabels == InitLabels /\ [][NextLabels]_vars

\* Bounds of the model: the totals the counter is set to, and the calls of
\* update_progress after one set_total_charts.
MaxTotal == 6
MaxCalls == 9

\* ksp.py is imported: line 20
InitCounter ==
    /\ GenIdle
    /\ ParseIdle
    /\ LabelIdle
    /\ KspIdle
    /\ FillIdle
    /\ TrIdle

\* a call of set_total_charts, lines 30-33
SetTotalCharts ==
    /\ \E total \in 0..MaxTotal : chart_counter' = set_total_charts(total)
    /\ ksp_pc' = "set_total_charts"
    /\ UNCHANGED << ksp_df, progress, test_out >>
    /\ UNCHANGED not_ksp_vars

\* a call of update_progress, lines 22-28
UpdateProgress ==
    /\ chart_counter.current < MaxCalls
    /\ LET st == update_progress([counter |-> chart_counter, shown |-> progress])
       IN /\ chart_counter' = st.counter
          /\ progress' = st.shown
    /\ ksp_pc' = "update_progress"
    /\ UNCHANGED << ksp_df, test_out >>
    /\ UNCHANGED not_ksp_vars

NextCounter == SetTotalCharts \/ UpdateProgress

SpecCounter == InitCounter /\ [][NextCounter]_vars

\* fill_mission_payload_column is called with a df of up to MaxFillRows rows.
InitFill ==
    /\ GenIdle
    /\ ParseIdle
    /\ KspIdle
    /\ LabelIdle
    /\ TrIdle
    /\ \E n \in 0..MaxFillRows : fill_in \in [1..n -> FillRowPool]
    /\ fill_df = <<>>
    /\ fill_idx = 0
    /\ fill_counters = NewFillCounters
    /\ fill_pc = "start"

\* lines 242-253
FillStart ==
    /\ fill_pc = "start"
    /\ fill_df' = WithPayloadFilled(fill_in)
    /\ fill_counters' = NewFillCounters
    /\ fill_idx' = 1
    /\ fill_pc' = "rows"
    /\ UNCHANGED fill_in
    /\ UNCHANGED not_fill_vars

\* lines 255-286: one pass of the loop
FillRow ==
    /\ fill_pc = "rows"
    /\ fill_idx <= Len(fill_df)
    /\ LET st == fill_row([df |-> fill_df, counters |-> fill_counters], fill_idx)
       IN /\ fill_df' = st.df
          /\ fill_counters' = st.counters
    /\ fill_idx' = fill_idx + 1
    /\ UNCHANGED << fill_in, fill_pc >>
    /\ UNCHANGED not_fill_vars

\* line 288
FillReturn ==
    /\ fill_pc = "rows"
    /\ fill_idx > Len(fill_df)
    /\ fill_pc' = "done"
    /\ UNCHANGED << fill_in, fill_df, fill_idx, fill_counters >>
    /\ UNCHANGED not_fill_vars

NextFill == FillStart \/ FillRow \/ FillReturn

SpecFill == InitFill /\ [][NextFill]_vars

\* line 59: reader over the data lines of missions.tsv
InitTranslation ==
    /\ GenIdle
    /\ ParseIdle
    /\ KspIdle
    /\ LabelIdle
    /\ FillIdle
    /\ \E n \in 0..MaxTsvRows : tsv_rows \in [1..n -> TsvRowPool]
    /\ tsv_idx = 1
    /\ missions = <<>>
    /\ out = <<>>
    /\ tr_pc = "rows"

\* lines 60-86: one pass of the loop
ReadRow ==
    /\ tr_pc = "rows"
    /\ tsv_idx <= Len(tsv_rows)
    /\ missions' = read_row(missions, tsv_rows[tsv_idx])
    /\ tsv_idx' = tsv_idx + 1
    /\ UNCHANGED << tsv_rows, out, tr_pc >>
    /\ UNCHANGED not_tr_vars

\* lines 89-97
WriteOut ==
    /\ tr_pc = "rows"
    /\ tsv_idx > Len(tsv_rows)
    /\ out' = WriteBlocks(missions, sorted_projects(missions))
    /\ tr_pc' = "done"
    /\ UNCHANGED << tsv_rows, tsv_idx, missions >>
    /\ UNCHANGED not_tr_vars

NextTranslation == ReadRow \/ WriteOut

SpecTranslation == InitTranslation /\ [][NextTranslation]_vars

----------------------------------------------------------------------------
\* Vocabulary of the properties

\* Row i has been through the lane loop of the current call.
Handled(i) == i \in DOMAIN df /\ (pc = "lanes" => i < idx)

SameTeam(i, j) == df[i].Team = df[j].Team

\* The time ranges [Start, End) of two rows share an instant.
Overlap(a, b) ==
    \E t \in Times : a.Start <= t /\ t < a.End /\ b.Start <= t /\ t < b.End

\* An earlier row of the team of row i holds lane k beyond the start of row i.
Busy(i, k) ==
    \E j \in 1..(i - 1) :
        SameTeam(i, j) /\ df[j].Offset = k /\ df[j].End > df[i].Start

TeamRows(team) == {i \in DOMAIN df : df[i].Team = team}

Listed(team) == team \in Range(team_order)

----------------------------------------------------------------------------
\* C1: after the lane loop (and after each of its steps) no two rows of one
\* team whose time ranges overlap, under start <= t < end, have the same
\* Offset, in whatever order the rows are listed, and every Offset is >= 0.
C1_NoOverlapInLane ==
    /\ \A i, j \in DOMAIN df :
          (Handled(i) /\ Handled(j) /\ i /= j /\ SameTeam(i, j) /\ Overlap(df[i], df[j]))
              => df[i].Offset /= df[j].Offset
    /\ \A i \in DOMAIN df : Handled(i) => df[i].Offset >= 0

\* Two overlapping rows of one team, the later start listed first, both handled.
C1_Witness ==
    \E i, j \in DOMAIN df :
        /\ i < j /\ Handled(j) /\ SameTeam(i, j)
        /\ df[i].Start > df[j].Start
        /\ Overlap(df[i], df[j])
        /\ df[i].Offset /= df[j].Offset

\* C2: first fit: the Offset of every handled row is the smallest k >= 0 such
\* that no earlier row of its team on lane k has End > the row's Start.
C2_FirstFit ==
    \A i \in DOMAIN df :
        Handled(i) =>
            /\ ~Busy(i, df[i].Offset)
            /\ \A k \in 0..(df[i].Offset - 1) : Busy(i, k)

\* Three rows of one team get lanes 0, 1, 0: the third returns to lane 0
\* while lane 1 is still held.
C2_Witness ==
    /\ pc = "layout"
    /\ Len(df) = 3
    /\ SameTeam(1, 2) /\ SameTeam(2, 3)
    /\ df[1].Offset = 0 /\ df[2].Offset = 1 /\ df[3].Offset = 0
    /\ df[2].End > df[3].Start
    /\ df[1].Start < df[1].End

----------------------------------------------------------------------------
\* Vocabulary of the row order

\* The place of a team in team_order, and of a label in y_order.
Rank(team) == CHOOSE k \in DOMAIN team_order : team_order[k] = team
Pos(label) == CHOOSE p \in DOMAIN y_order : y_order[p] = label

Key(i) == RowKey(df[i].Team, df[i].Offset)

\* The statement of C3 as given: in y_order, the labels of a team that comes
\* first in team_order stand before the labels of a team that comes later.
C3_TeamOrderInYOrder ==
    pc = "done" =>
        \A i, j \in DOMAIN df :
            Rank(df[i].Team) < Rank(df[j].Team) =>
                /\ Key(i) \in Range(y_order)
                /\ Key(j) \in Range(y_order)
                /\ Pos(Key(i)) < Pos(Key(j))

\* C3 (amended): the row order respects team_order in the vertical positions:
\* if team A precedes team B in team_order, every key (A, lane) has a smaller
\* Y than every key (B, lane'); y_order, reversed at line 154, lists the
\* labels of B before those of A.
C3_TeamOrderInPositions ==
    pc = "done" =>
        \A i, j \in DOMAIN df :
            Rank(df[i].Team) < Rank(df[j].Team) =>
                /\ team_y_mapping[<<df[i].Team, df[i].Offset>>]
                       < team_y_mapping[<<df[j].Team, df[j].Offset>>]
                /\ df[i].Y < df[j].Y
                /\ Key(i) \in Range(y_order)
                /\ Key(j) \in Range(y_order)
                /\ Pos(Key(j)) < Pos(Key(i))

\* The later team of team_order is listed first in the file, the earlier
\* one uses two lanes.
C3_Witness ==
    /\ pc = "done"
    /\ \E i, j \in DOMAIN df :
          /\ j < i
          /\ Rank(df[i].Team) < Rank(df[j].Team)
          /\ MaxOffset(df, df[i].Team) = 1
          /\ MaxOffset(df, df[j].Team) = 0

\* C4: a team that team_order does not list still gets vertical positions,
\* after those of the listed teams, and the run ends without error.
C4_UnlistedTeamsLast ==
    \A i \in DOMAIN df :
        (pc \in {"done", "error"} /\ ~Listed(df[i].Team)) =>
            /\ err = "none"
            /\ <<df[i].Team, df[i].Offset>> \in DOMAIN team_y_mapping
            /\ \A j \in DOMAIN df : Listed(df[j].Team) => df[j].Y < df[i].Y

\* C5: a row with Start > End is rejected with InvalidInterval and leaves no
\* reservation: no lane is assigned to it.
C5_InvalidIntervalRejected ==
    \A i \in DOMAIN df :
        (Handled(i) /\ df[i].Start > df[i].End) =>
            /\ err = "InvalidInterval"
            /\ \A r \in DOMAIN offset_tracker[df[i].Team] :
                  offset_tracker[df[i].Team][r][1] /= df[i].End

\* The records s without the m-th.
Without(s, m) == [i \in 1..(Len(s) - 1) |-> IF i < m THEN s[i] ELSE s[i + 1]]

\* C6: a row with Start > End leaves the lanes of all other rows as they
\* would be had the row not been in the file.
C6_MalformedLeavesNoTrace ==
    \A m \in DOMAIN df :
        (pc \in {"layout", "done", "error"} /\ df[m].Start > df[m].End) =>
            LET alone == LaneLoop(Frame(Without(file, m)), <<>>, 1)
            IN \A i \in DOMAIN df \ {m} :
                  df[i].Offset = alone[IF i < m THEN i ELSE i - 1].Offset

\* C7: the end instant of a row does not hold its lane: the lanes found
\* occupied for a row are exactly those with an earlier row of the team whose
\* End is strictly greater than the row's Start, so a row, zero-length or not,
\* that starts where the occupancy of a lane ends goes no higher than that lane.
C7_EndInstantFree ==
    /\ idx > 1 =>
          taken_offsets = {k \in 0..Len(df) : Busy(idx - 1, k)}
    /\ \A i \in DOMAIN df :
          Handled(i) =>
              \A j \in 1..(i - 1) :
                  (SameTeam(i, j) /\ df[j].End = df[i].Start /\ ~Busy(i, df[j].Offset))
                      => df[i].Offset <= df[j].Offset

\* A zero-length row takes the lane of an earlier row that ends at its instant.
C7_Witness ==
    \E i \in DOMAIN df : \E j \in 1..(i - 1) :
        /\ Handled(i) /\ SameTeam(i, j)
        /\ df[i].Start = df[i].End
        /\ df[j].Start < df[j].End
        /\ df[j].End = df[i].Start
        /\ df[i].Offset = df[j].Offset

\* C8: the second generate() call starts its lane loop with no reservation
\* and draws the same lanes and the same row order as the first.
C8_SecondCallSame ==
    /\ (pc = "lanes" /\ idx = 1) => DOMAIN offset_tracker = {}
    /\ Len(charts) = 2 => charts[1] = charts[2]

\* Both calls have finished on a file that needs a second lane.
C8_Witness ==
    /\ Len(charts) = 2
    /\ call = 2
    /\ \E i \in DOMAIN df : df[i].Offset >= 1

\* The labels (team, 0) .. (team, max_lane), ascending.
LaneKeys(team) == [l \in 1..(MaxOffset(df, team) + 1) |-> RowKey(team, l - 1)]

\* The labels of a team in y_order, in the order y_order has them.
LabelsOf(team) ==
    SelectSeq(y_order, LAMBDA s : s \in {RowKey(team, l) : l \in 0..Len(df)})

\* The statement of C9 as given: y_order has, for each team with rows, the
\* labels (team, 0) .. (team, max_lane), once each, in ascending lane order.
C9_LanesAscendingInYOrder ==
    pc = "done" =>
        \A team \in FileTeams :
            TeamRows(team) /= {} => LabelsOf(team) = LaneKeys(team)

\* C9 (amended): for each team with rows, y_order has exactly the labels
\* (team, 0) .. (team, max_lane), once each, in descending lane order (the
\* list is reversed at line 154); team_y_mapping has exactly these keys, at
\* consecutive ascending positions.
C9_LanesOnceEach ==
    pc = "done" =>
        \A team \in FileTeams :
            TeamRows(team) /= {} =>
                /\ LabelsOf(team) = Reverse(LaneKeys(team))
                /\ \A l \in 0..Len(df) :
                      <<team, l>> \in DOMAIN team_y_mapping <=> l <= MaxOffset(df, team)
                /\ \A l \in 0..MaxOffset(df, team) :
                      team_y_mapping[<<team, l>>] = team_y_mapping[<<team, 0>>] + l

\* A team with three rows on two lanes: lane 0 is used twice.
C9_Witness ==
    /\ pc = "done"
    /\ \E team \in FileTeams :
          /\ Cardinality(TeamRows(team)) = 3
          /\ MaxOffset(df, team) = 1

\* A row holds the instants Start <= t < End and, however short, its Start.
Holds(r, t) == r.Start <= t /\ (t < r.End \/ t = r.Start)

\* The largest number of rows of a team that hold one instant.
MaxOverlap(team) ==
    LET n(t) == Cardinality({i \in TeamRows(team) : Holds(df[i], t)})
    IN n(CHOOSE t \in Times : \A u \in Times : n(u) <= n(t))

\* The number of lanes the handled rows of a team use.
LanesUsed(team) ==
    Cardinality({df[i].Offset : i \in {j \in TeamRows(team) : Handled(j)}})

\* The rows of a team are listed in non-decreasing order of Start.
StartOrdered(team) ==
    \A i, j \in TeamRows(team) : i < j => df[i].Start <= df[j].Start

\* The statement of C10 as given: in any input order, neither the lanes found
\* occupied at an insertion nor the lanes a team uses exceed the largest
\* number of the team's rows that overlap at one instant.
C10_LanesWithinOverlap ==
    /\ idx > 1 => Cardinality(taken_offsets) <= MaxOverlap(df[idx - 1].Team)
    /\ \A team \in FileTeams : LanesUsed(team) <= MaxOverlap(team)

\* C10 (amended): when the rows of a team are listed in non-decreasing order
\* of Start, neither the lanes found occupied at an insertion nor the lanes
\* the team uses exceed the largest number of the team's rows that overlap
\* at one instant.
C10_LanesWithinOverlapSorted ==
    \A team \in FileTeams :
        StartOrdered(team) =>
            /\ (idx > 1 /\ df[idx - 1].Team = team) =>
                  Cardinality(taken_offsets) <= MaxOverlap(team)
            /\ LanesUsed(team) <= MaxOverlap(team)

\* Three rows of a team in start order, of positive length, on as many lanes
\* as overlap at one instant.
C10_Witness ==
    /\ pc = "layout"
    /\ \E team \in FileTeams :
          /\ Cardinality(TeamRows(team)) = 3
          /\ StartOrdered(team)
          /\ \A i \in TeamRows(team) : df[i].Start < df[i].End
          /\ LanesUsed(team) = 2
          /\ MaxOverlap(team) = 2

----------------------------------------------------------------------------
\* The records of the file up to the i-th that belong to the team of the i-th.
TeamPrefix(i) ==
    SelectSeq(SubSeq(file, 1, i), LAMBDA r : r.Team = file[i].Team)

\* The lanes the loop gives the records s, taken alone.
LanesOf(s) == LaneLoop(Frame(s), <<>>, 1)

\* The lane of row i depends on the earlier records of its team only, and
\* the first record of a team gets lane 0.
C11_LaneFromEarlierRows ==
    \A i \in DOMAIN df :
        Handled(i) =>
            /\ df[i].Offset = LanesOf(TeamPrefix(i))[Len(TeamPrefix(i))].Offset
            /\ (\A j \in 1..(i - 1) : ~SameTeam(i, j)) => df[i].Offset = 0

\* Within a call, no step changes the lane of a row already handled.
C11_LaneKept ==
    \A i \in DOMAIN df :
        (Handled(i) /\ call' = call) =>
            /\ i \in DOMAIN df'
            /\ df'[i].Offset = df[i].Offset

\* C11: lanes are assigned in input order: the lane of a row is determined by
\* the records of its team listed before it, is never changed while later
\* rows are handled, and the first-listed row of every team gets lane 0.
C11_InputOrder == [](C11_LaneFromEarlierRows) /\ [][C11_LaneKept]_vars

\* Two overlapping rows of a team, the later start listed first: the row
\* listed first keeps lane 0 and the earlier start goes to lane 1.
C11_Witness ==
    /\ pc = "layout"
    /\ \E i, j \in DOMAIN df :
          /\ i < j /\ SameTeam(i, j)
          /\ df[i].Start > df[j].Start
          /\ df[i].Offset = 0 /\ df[j].Offset = 1

\* The records of a team, in file order.
TeamOnly(team) == SelectSeq(file, LAMBDA r : r.Team = team)

\* The place of row i among the rows of its team.
PlaceInTeam(i) == Cardinality({j \in 1..i : SameTeam(i, j)})

\* C12: the lanes of a team do not depend on the other teams: every handled
\* row has the lane it gets when the records of its team are the whole file.
C12_TeamsIndependent ==
    \A i \in DOMAIN df :
        Handled(i) =>
            df[i].Offset = LanesOf(TeamOnly(df[i].Team))[PlaceInTeam(i)].Offset

\* A row of another team, overlapping both, stands between two overlapping
\* rows of a team.
C12_Witness ==
    /\ pc = "layout"
    /\ Len(df) = 3
    /\ SameTeam(1, 3) /\ ~SameTeam(1, 2)
    /\ Overlap(df[1], df[2]) /\ Overlap(df[2], df[3]) /\ Overlap(df[1], df[3])
    /\ df[1].Offset = 0 /\ df[2].Offset = 0 /\ df[3].Offset = 1

\* C13: a data file without record lines gives empty outputs, no lanes and
\* an empty row order, and no error.
C13_EmptyFileNoError ==
    (file = <<>> /\ pc /= "start") =>
        /\ err = "none"
        /\ pc = "done"
        /\ df = <<>>
        /\ y_order = <<>>

\* The teams of team_order, in order, that have rows.
TeamsWithRows == SelectSeq(team_order, LAMBDA t : TeamRows(t) /= {})

\* The highest lane among the rows of a team that has rows.
TopLane(team) ==
    CHOOSE m \in {df[i].Offset : i \in TeamRows(team)} :
        \A i \in TeamRows(team) : df[i].Offset <= m

\* C14: a team of team_order without rows has no row key and takes no
\* vertical position: the rows of the next team with rows start directly
\* after those of the previous one, the first at position 0.
C14_EmptyTeamNoRow ==
    pc = "done" =>
        /\ \A k \in DOMAIN team_order : \A l \in 0..Len(df) :
              TeamRows(team_order[k]) = {} =>
                  /\ <<team_order[k], l>> \notin DOMAIN team_y_mapping
                  /\ RowKey(team_order[k], l) \notin Range(y_order)
        /\ team_y_mapping[<<TeamsWithRows[1], 0>>] = 0
        /\ \A n \in 2..Len(TeamsWithRows) :
              team_y_mapping[<<TeamsWithRows[n], 0>>] =
                  team_y_mapping[<<TeamsWithRows[n - 1], TopLane(TeamsWithRows[n - 1])>>] + 1

\* The file has rows of the second team of team_order only: they start at 0.
C14_Witness ==
    /\ pc = "done"
    /\ TeamRows(team_order[1]) = {}
    /\ TeamRows(team_order[2]) /= {}
    /\ team_y_mapping[<<team_order[2], 0>>] = 0
    /\ Len(y_order) = TopLane(team_order[2]) + 1

----------------------------------------------------------------------------
\* Claims about parse_file (specification SpecParse)

\* The number of lines parse_file has read.
LinesRead == line_no - 1

\* The kinds of line, as line 48 and line 51 tell them apart: the line is
\* looked at stripped and with the ongoing marker replaced by the date.
IsBlankLine(k) == Cleaned(lines[k]) = <<>>
IsRecordLine(k) == ~IsBlankLine(k) /\ IsRecord(Split(Cleaned(lines[k])))
IsHeaderLine(k) == ~IsBlankLine(k) /\ ~IsRecordLine(k)

RecordLines == {k \in 1..LinesRead : IsRecordLine(k)}
HeadersBefore(k) == {h \in 1..(k - 1) : IsHeaderLine(h)}

\* The line the j-th record was read from.
LineOfRecord(j) ==
    CHOOSE k \in RecordLines : Cardinality({m \in RecordLines : m <= k}) = j

\* The text of the nearest header line before line k; None without one.
TeamAt(k) ==
    IF HeadersBefore(k) = {} THEN None
    ELSE LET h == CHOOSE x \in HeadersBefore(k) : \A y \in HeadersBefore(k) : y <= x
         IN Str(Cleaned(lines[h]))

\* C15: every record has a non-empty group, and a record read before any
\* team header line has the group "unassigned".
C15_GroupNeverMissing ==
    \A j \in DOMAIN parse_data :
        /\ parse_data[j].Team /= None
        /\ parse_data[j].Team /= ""
        /\ HeadersBefore(LineOfRecord(j)) = {} => parse_data[j].Team = "unassigned"

\* C20: parse_file keeps a running current team.  Every record line read so
\* far (at least 3 words, the last two with exactly two "-" each, in the
\* line as line 51 sees it) has given one record, in file order, whose Team
\* is the text of the nearest non-blank non-record line before it (None
\* without one); header lines and blank lines have given no record, and the
\* current team is the text of the nearest header line, whatever blank
\* lines and record lines follow it.
C20_RunningTeam ==
    /\ Len(parse_data) = Cardinality(RecordLines)
    /\ \A j \in DOMAIN parse_data :
          LET k == LineOfRecord(j)
              tokens == Split(Cleaned(lines[k]))
          IN /\ parse_data[j].Team = TeamAt(k)
             /\ parse_data[j].Start = tokens[Len(tokens) - 1]
             /\ parse_data[j].End = tokens[Len(tokens)]
    /\ current_team = TeamAt(line_no)

\* A header line, a blank line and a record line have been read in this
\* order: the record has the team of the header.
C20_Witness ==
    /\ Len(lines) = 3
    /\ line_no = 4
    /\ IsHeaderLine(1)
    /\ IsBlankLine(2)
    /\ IsRecordLine(3)
    /\ Len(parse_data) = 1
    /\ parse_data[1].Team = Str(Cleaned(lines[1]))
    /\ parse_data[1].Team /= None

----------------------------------------------------------------------------
\* C16 as stated: from the loop on, df has as many rows as the parser
\* produced records, in the same order, and each row has the Team, Lead,
\* Start and End of the parser's record.  Lines 82-83 rewrite Lead before the
\* loop, so the Lead of a row with a long word is not the parser's.
C16_UnchangedFromParser ==
    pc \in {"lanes", "layout", "done"} =>
        /\ Len(df) = Len(file)
        /\ \A i \in DOMAIN df :
              /\ df[i].Team = file[i].Team
              /\ df[i].Lead = file[i].Lead
              /\ df[i].Start = file[i].Start
              /\ df[i].End = file[i].End

\* C16, amended: the lane loop writes the lane only.  From the loop on, df
\* has as many rows as the parser produced records, in the same order; each
\* row has the Team, Start and End of the parser's record, and as Lead the
\* parser's Lead as lines 82-83 rewrote it before the loop (every word of
\* more than max_name_line_len characters, its leading space counted, cut
\* and followed by "..." and a line feed).
C16_OnlyLaneWritten ==
    pc \in {"lanes", "layout", "done"} =>
        /\ Len(df) = Len(file)
        /\ \A i \in DOMAIN df :
              /\ df[i].Team = file[i].Team
              /\ df[i].Lead = truncate_name(linebreak_name(file[i].Lead),
                                            max_name_line_len)
              /\ df[i].Start = file[i].Start
              /\ df[i].End = file[i].End

\* The loop has run over three rows, one of a name that line 83 cut, and has
\* written a lane other than 0.
C16_Witness ==
    /\ pc = "layout"
    /\ Len(df) = 3
    /\ \E i \in DOMAIN df : df[i].Offset > 0
    /\ \A i \in DOMAIN df : df[i].Lead /= <<>>
    /\ df[3].Lead /= file[3].Lead

----------------------------------------------------------------------------
\* The other allocator of C19: per team, a map from lane to the largest End
\* seen on that lane.

\* The lowest lane, from lane on, whose largest End is not after start.
RECURSIVE FreeLane(_, _, _)
FreeLane(ends, lane, start) ==
    IF lane \in DOMAIN ends /\ ends[lane] > start
    THEN FreeLane(ends, lane + 1, start)
    ELSE lane

\* The lanes the map allocator gives the records s from the i-th on.
RECURSIVE MapLanes(_, _, _)
MapLanes(s, maps, i) ==
    IF i > Len(s) THEN <<>>
    ELSE LET team == s[i].Team
             ends == IF team \in DOMAIN maps THEN maps[team] ELSE <<>>
             lane == FreeLane(ends, 0, s[i].Start)
             end == IF lane \in DOMAIN ends /\ ends[lane] > s[i].End
                    THEN ends[lane] ELSE s[i].End
         IN <<lane>> \o MapLanes(s, (team :> ((lane :> end) @@ ends)) @@ maps, i + 1)

\* The handled rows of a team, in file order.
HandledOf(team) == SelectSeq([i \in DOMAIN df |-> i],
                             LAMBDA i : Handled(i) /\ df[i].Team = team)

\* C19: the list of reservations of a team has one (End, lane) entry for
\* each handled row of the team, in the order of the rows, and the lane the
\* loop gives a row is the lane the map allocator gives it.
C19_ListAgreesWithMap ==
    pc \in {"lanes", "layout", "done"} =>
        /\ \A team \in {df[i].Team : i \in DOMAIN df} :
              LET h == HandledOf(team)
              IN IF h = <<>> THEN team \notin DOMAIN offset_tracker
                 ELSE /\ team \in DOMAIN offset_tracker
                      /\ offset_tracker[team] =
                            [n \in DOMAIN h |-> <<df[h[n]].End, df[h[n]].Offset>>]
        /\ \A i \in DOMAIN df :
              Handled(i) => df[i].Offset = MapLanes(file, <<>>, 1)[i]

\* Three rows of one team were given the lanes 0, 1, 0: lane 0 holds two
\* reservations in the list and one largest End in the map.
C19_Witness ==
    /\ pc = "layout"
    /\ Len(df) = 3
    /\ df[1].Team = df[2].Team
    /\ df[2].Team = df[3].Team
    /\ df[1].Offset = 0
    /\ df[2].Offset = 1
    /\ df[3].Offset = 0
    /\ Len(offset_tracker[df[1].Team]) = 3

----------------------------------------------------------------------------
\* Claims about ksp.py (specification SpecCharts)

\* C17: when main has run every create_ function, the counter's current,
\* the number of update_progress calls, equals the total that
\* calculate_total_charts gave set_total_charts.
C17_CurrentReachesTotal ==
    ksp_pc = "done" => chart_counter.current = chart_counter.total

\* C18: the total calculate_total_charts returns is 22 plus 6 for each
\* program, in main and in test_charts.py.
C18_TotalIs22Plus6PerProgram ==
    /\ ksp_pc \notin {"idle", "start", "tested", "AttributeError"} =>
          chart_counter.total = 22 + 6 * Cardinality(ProgramsOf(ksp_df))
    /\ ksp_pc = "tested" => test_out.total = test_out.should

----------------------------------------------------------------------------
\* The record line k ends in the ongoing marker.
IsOngoingLine(k) ==
    LET line == Strip(lines[k])
    IN /\ IsRecordLine(k)
       /\ Len(line) >= Len(OngoingMarker)
       /\ SubSeq(line, Len(line) - Len(OngoingMarker) + 1, Len(line)) = OngoingMarker

\* C21: a record whose end is the ongoing marker has as End the date of the
\* day the script is run.
C21_OngoingEndsToday ==
    \A j \in DOMAIN parse_data :
        IsOngoingLine(LineOfRecord(j)) => parse_data[j].End = today

----------------------------------------------------------------------------
\* Lines 114-128 have run: team_y_mapping is that of df.
LaidOut == pc = "done" \/ (pc = "error" /\ df /= <<>>)

\* Line 144 has run for row i.
YAssigned(i) ==
    \/ pc = "done"
    \/ pc = "error" /\ \A j \in 1..i : Listed(df[j].Team)

\* The lanes of the teams that stand before the k-th in team_order.
RECURSIVE LanesBefore(_)
LanesBefore(k) ==
    IF k = 1 THEN 0 ELSE LanesBefore(k - 1) + LanesUsed(team_order[k - 1])

\* The row key a stands before the row key b: by team_order, then by lane.
KeyBefore(a, b) ==
    \/ Rank(a[1]) < Rank(b[1])
    \/ a[1] = b[1] /\ a[2] < b[2]

\* C22: team_y_mapping is a bijection from the row keys of the listed teams
\* onto 0..N-1 that follows the row-key order; every row of a listed team
\* finds its (Team, Offset) in it, and the Y line 144 gives the row is the
\* number of lanes of the teams before its team in team_order plus its lane.
C22_PositionsBijective ==
    LaidOut =>
        LET keys == DOMAIN team_y_mapping
            N == Cardinality(keys)
        IN /\ keys = {<<df[i].Team, df[i].Offset>> :
                        i \in {j \in DOMAIN df : Listed(df[j].Team)}}
           /\ {team_y_mapping[a] : a \in keys} = 0..(N - 1)
           /\ \A a, b \in keys :
                 KeyBefore(a, b) => team_y_mapping[a] < team_y_mapping[b]
           /\ \A i \in DOMAIN df :
                 Listed(df[i].Team) /\ YAssigned(i) =>
                     df[i].Y = LanesBefore(Rank(df[i].Team)) + df[i].Offset

\* The first listed team has two lanes and a row of the second stands at 2.
C22_Witness ==
    /\ pc = "done"
    /\ Len(df) = 3
    /\ df[1].Team = team_order[1]
    /\ df[2].Team = team_order[1]
    /\ df[2].Offset = 1
    /\ df[3].Team = team_order[2]
    /\ df[3].Y = 2

----------------------------------------------------------------------------
\* The lanes the handled rows of a team have.
LanesOfTeam(team) == {df[i].Offset : i \in {j \in TeamRows(team) : Handled(j)}}

\* C23: after every step of the lane loop the lanes used so far by a team
\* are 0..m without gap: a lane k > 0 is in use only with the lanes 0..k-1.
C23_LanesGapFree ==
    \A team \in {df[i].Team : i \in DOMAIN df} :
        LanesOfTeam(team) = 0..(Cardinality(LanesOfTeam(team)) - 1)

\* In the middle of the loop a team has the lanes 0 and 1.
C23_Witness ==
    /\ pc = "lanes"
    /\ idx = 3
    /\ df[1].Team = df[2].Team
    /\ LanesOfTeam(df[1].Team) = {0, 1}

\* C24: the search of lines 102-104 ends: it makes as many passes as the
\* lane it returns, which is at most the number of lanes found taken, and
\* that is at most the number of earlier rows of the team; so the i-th row
\* of a team, counted from 0 in file order, has a lane of at most i.
C24_LaneAtMostPlace ==
    /\ \A i \in DOMAIN df :
          Handled(i) => df[i].Offset <= PlaceInTeam(i) - 1
    /\ (pc \in {"lanes", "layout"} /\ idx > 1) =>
          /\ df[idx - 1].Offset <= Cardinality(taken_offsets)
          /\ Cardinality(taken_offsets) <= PlaceInTeam(idx - 1) - 1

\* The third row of a team found two lanes taken and has the lane 2.
C24_Witness ==
    /\ pc = "layout"
    /\ Len(df) = 3
    /\ PlaceInTeam(3) = 3
    /\ taken_offsets = {0, 1}
    /\ df[3].Offset = 2

----------------------------------------------------------------------------
\* C25: two rows of different (Team, Offset) have different Y_Label.
C25_LabelsDistinct ==
    label_pc = "done" =>
        \A i, j \in DOMAIN label_rows :
            label_rows[i] /= label_rows[j] => y_labels[i] /= y_labels[j]

----------------------------------------------------------------------------
\* C26: the current a call of update_progress shows is at most the total;
\* the call adds exactly 1 to the stored counter; a call of
\* set_total_charts leaves the stored counter at 0.
C26_ShownAtMostTotal ==
    [][/\ ksp_pc' = "update_progress" =>
            /\ progress' <= chart_counter'.total
            /\ chart_counter'.current = chart_counter.current + 1
            /\ chart_counter'.total = chart_counter.total
       /\ ksp_pc' = "set_total_charts" => chart_counter'.current = 0]_vars

\* update_progress was called more often than the total says, and showed
\* the total.
C26_Witness ==
    /\ ksp_pc = "update_progress"
    /\ chart_counter.total > 0
    /\ chart_counter.current > chart_counter.total
    /\ progress = chart_counter.total

----------------------------------------------------------------------------
\* The payload of row i of the df given is empty.
EmptyPayload(i) ==
    fill_in[i].Mission = NaN \/ Strip(fill_in[i].Mission) = <<>>

\* The categories that number their names.
Numbered ==
    {"Humboldt Orbital", "Humboldt Suborbital", "ATP Spaceflight", "ATP Flight"}

\* The place of row i among the rows of its category with an empty payload.
PlaceInCategory(i) ==
    Cardinality({j \in 1..i : /\ EmptyPayload(j)
                              /\ Category(fill_in[j]) = Category(fill_in[i])})

\* C27: in the df returned, the k-th row with an empty payload of a
\* category has the name of the category followed by k, each category
\* counting for itself from 1, and a row with a payload is as it was given.
C27_NumberedPerCategory ==
    fill_pc = "done" =>
        /\ Len(fill_df) = Len(fill_in)
        /\ \A i \in DOMAIN fill_in :
              /\ fill_df[i].Vehicle = fill_in[i].Vehicle
              /\ fill_df[i].Contract = fill_in[i].Contract
              /\ ~EmptyPayload(i) => fill_df[i] = fill_in[i]
              /\ EmptyPayload(i) /\ Category(fill_in[i]) \in Numbered =>
                    fill_df[i].Mission =
                        CategoryText[Category(fill_in[i])] \o <<" ">>
                            \o Digits(PlaceInCategory(i))

\* Two rows of one category got 1 and 2 with a row of another category and
\* a row with a payload between them.
C27_Witness ==
    /\ fill_pc = "done"
    /\ Len(fill_in) = 4
    /\ EmptyPayload(1) /\ Category(fill_in[1]) = "ATP Spaceflight"
    /\ ~EmptyPayload(2) /\ Category(fill_in[2]) = "ATP Spaceflight"
    /\ EmptyPayload(3) /\ Category(fill_in[3]) = "ATP Flight"
    /\ EmptyPayload(4) /\ Category(fill_in[4]) = "ATP Spaceflight"
    /\ fill_df[3].Mission = CategoryText["ATP Flight"] \o <<" ", "1">>
    /\ fill_df[4].Mission = CategoryText["ATP Spaceflight"] \o <<" ", "2">>

----------------------------------------------------------------------------
\* The line of row i is among the mission lines written.
Written(i) ==
    \E k \in DOMAIN out :
        out[k].kind = "mission" /\ out[k].text = translate_ship(tsv_rows[i].Ship)

\* The duration text is empty, has a part that is no integer, or has other
\* than 2, 3 or 4 parts.
ZeroCase(duration) ==
    LET parts == SplitOn(Strip(duration), ":")
    IN \/ Strip(duration) = <<>>
       \/ Len(parts) \notin {2, 3, 4}
       \/ \E i \in DOMAIN parts : ~int(parts[i]).ok

\* C28: a mission is written exactly when its parsed duration is at least
\* one hour; a duration that is empty, has a part that is no integer or has
\* other than 2, 3 or 4 parts parses as zero and its mission is not written.
C28_WrittenIffAnHour ==
    tr_pc = "done" =>
        \A i \in DOMAIN tsv_rows :
            /\ Written(i) <=> parse_duration(tsv_rows[i].Dur) >= 3600
            /\ ZeroCase(tsv_rows[i].Dur) =>
                  parse_duration(tsv_rows[i].Dur) = 0 /\ ~Written(i)

\* A mission of exactly an hour was written, one of 59:59 and one with a
\* part that is no integer were not.
C28_Witness ==
    /\ tr_pc = "done"
    /\ \E i, j, k \in DOMAIN tsv_rows :
          /\ parse_duration(tsv_rows[i].Dur) = 3600 /\ Written(i)
          /\ parse_duration(tsv_rows[j].Dur) = 3599 /\ ~Written(j)
          /\ ZeroCase(tsv_rows[k].Dur) /\ Strip(tsv_rows[k].Dur) /= <<>>
          /\ ~Written(k)

----------------------------------------------------------------------------
\* The project names as the output has them.
Merged(project) ==
    IF project = <<"S", "Z">>
    THEN <<"S", "h", "e", "n", "z", "h", "o", "u">>
    ELSE IF project = <<"S", "T", "S">>
    THEN <<"S", "p", "a", "c", "e", " ", "S", "h", "u", "t", "t", "l", "e">>
    ELSE IF project = <<"S", "o", "y", "u", "z", "/", "M", "i", "r", "C", "o", "r",
                        "p">>
    THEN <<"S", "o", "y", "u", "z">>
    ELSE project

\* The rows whose mission is kept.
KeptRows == {i \in DOMAIN tsv_rows : parse_duration(tsv_rows[i].Dur) >= 3600}

\* The project lines of the output, in order.
ProjectLines == SelectSeq(out, LAMBDA line : line.kind = "project")

\* The mission lines from line k of the output up to the next other line.
RECURSIVE MissionRun(_)
MissionRun(k) ==
    IF k > Len(out) THEN <<>>
    ELSE IF out[k].kind /= "mission" THEN <<>>
    ELSE <<out[k].text>> \o MissionRun(k + 1)

\* The ships of the kept rows of a project, in input order, from row i on.
RECURSIVE KeptShips(_, _)
KeptShips(project, i) ==
    IF i > Len(tsv_rows) THEN <<>>
    ELSE (IF i \in KeptRows /\ Merged(Strip(tsv_rows[i].Project)) = project
          THEN <<translate_ship(tsv_rows[i].Ship)>> ELSE <<>>)
            \o KeptShips(project, i + 1)

\* C29: the project lines of the output ascend, there is one for each
\* project of a kept mission, and under it are the kept missions of the
\* project, each once and in input order, with SZ, STS and Soyuz/MirCorp
\* under Shenzhou, Space Shuttle and Soyuz.
C29_BlocksSortedAndComplete ==
    tr_pc = "done" =>
        /\ \A k \in 1..(Len(ProjectLines) - 1) :
              TextLess(ProjectLines[k].text, ProjectLines[k + 1].text)
        /\ {ProjectLines[k].text : k \in DOMAIN ProjectLines}
              = {Merged(Strip(tsv_rows[i].Project)) : i \in KeptRows}
        /\ \A k \in DOMAIN out :
              out[k].kind = "project" =>
                 MissionRun(k + 1) = KeptShips(out[k].text, 1)
        /\ Cardinality({k \in DOMAIN out : out[k].kind = "mission"})
              = Cardinality(KeptRows)

\* Three kept missions: a Soyuz one, then an SZ one, then a Soyuz/MirCorp
\* one; Shenzhou is written before Soyuz, and Soyuz has its two missions in
\* input order.
C29_Witness ==
    /\ tr_pc = "done"
    /\ Len(tsv_rows) = 3
    /\ KeptRows = {1, 2, 3}
    /\ Strip(tsv_rows[1].Project) = <<"S", "o", "y", "u", "z">>
    /\ Strip(tsv_rows[2].Project) = <<"S", "Z">>
    /\ Strip(tsv_rows[3].Project) /= Strip(tsv_rows[1].Project)
    /\ Merged(Strip(tsv_rows[3].Project)) = <<"S", "o", "y", "u", "z">>
    /\ Len(ProjectLines) = 2
    /\ ProjectLines[1].text = <<"S", "h", "e", "n", "z", "h", "o", "u">>
    /\ out[5].kind = "mission"
    /\ out[5].text = translate_ship(tsv_rows[1].Ship)
    /\ out[6].text = translate_ship(tsv_rows[3].Ship)

====
